---- MODULE Spec2Model ----
(***************************************************************************)
(* A model of app/gui_gnss.py: the RINEX 2 GPS navigation message parser,  *)
(* the ephemeris selector, the half-week time folding of the orbit         *)
(* propagator, and the session (App) that loads files and computes.        *)
(*                                                                         *)
(* Text is modelled as sequences of one-character strings, numbers parsed  *)
(* from text as exact decimals (sign, significant digits, exponent), so    *)
(* that the parser is computed character by character as the code does.    *)
(***************************************************************************)
EXTENDS Integers, Sequences, FiniteSets, TLC

\* ------------------------------------------------------------------------
\* Characters and Python string primitives
\* ------------------------------------------------------------------------

DigitChars == {"0", "1", "2", "3", "4", "5", "6", "7", "8", "9"}

DigitVal(c) ==
    CASE c = "0" -> 0 [] c = "1" -> 1 [] c = "2" -> 2 [] c = "3" -> 3
      [] c = "4" -> 4 [] c = "5" -> 5 [] c = "6" -> 6 [] c = "7" -> 7
      [] c = "8" -> 8 [] c = "9" -> 9

SignChars == {"+", "-"}

\* the exponent markers of the regular expressions, [DEde]
ExpChars == {"D", "E", "d", "e"}

\* the characters str.strip() removes
SpaceChars == {" ", "\t", "\n", "\r"}

Min(a, b) == IF a < b THEN a ELSE b

Max(a, b) == IF a > b THEN a ELSE b

Abs(a) == IF a < 0 THEN -a ELSE a

\* Python s[a:b] with 0 <= a <= b: the slice is clamped to the string
Slice(s, a, b) == SubSeq(s, a + 1, Min(b, Len(s)))

\* Python s[a:]
SliceFrom(s, a) == SubSeq(s, a + 1, Len(s))

RECURSIVE LStrip(_)
LStrip(s) ==
    IF s # <<>> /\ Head(s) \in SpaceChars THEN LStrip(Tail(s)) ELSE s

RECURSIVE RStrip(_)
RStrip(s) ==
    IF s # <<>> /\ s[Len(s)] \in SpaceChars
    THEN RStrip(SubSeq(s, 1, Len(s) - 1))
    ELSE s

\* str.strip()
Strip(s) == RStrip(LStrip(s))

\* str.startswith(p)
StartsWith(s, p) == Len(s) >= Len(p) /\ SubSeq(s, 1, Len(p)) = p

\* str.endswith(p)
EndsWith(s, p) ==
    Len(s) >= Len(p) /\ SubSeq(s, Len(s) - Len(p) + 1, Len(s)) = p

\* p in s
Contains(s, p) ==
    \E k \in 1..(Len(s) - Len(p) + 1) : SubSeq(s, k, k + Len(p) - 1) = p

\* ------------------------------------------------------------------------
\* Numbers
\* ------------------------------------------------------------------------

\* digit strings (sequences of digit values) without leading zeros
RECURSIVE StripLeadingZeros(_)
StripLeadingZeros(ds) ==
    IF ds # <<>> /\ Head(ds) = 0 THEN StripLeadingZeros(Tail(ds)) ELSE ds

RECURSIVE CountTrailingZeros(_)
CountTrailingZeros(ds) ==
    IF ds # <<>> /\ ds[Len(ds)] = 0
    THEN 1 + CountTrailingZeros(SubSeq(ds, 1, Len(ds) - 1))
    ELSE 0

RECURSIVE DigitsValue(_)
DigitsValue(ds) ==
    IF ds = <<>> THEN 0
    ELSE 10 * DigitsValue(SubSeq(ds, 1, Len(ds) - 1)) + ds[Len(ds)]

RECURSIVE Pow10(_)
Pow10(k) == IF k <= 0 THEN 1 ELSE 10 * Pow10(k - 1)

\* a > b for digit strings without leading zeros
RECURSIVE LexGT(_, _)
LexGT(a, b) ==
    IF a = <<>> \/ b = <<>> THEN FALSE
    ELSE IF Head(a) # Head(b) THEN Head(a) > Head(b)
    ELSE LexGT(Tail(a), Tail(b))

MagGT(a, b) == Len(a) > Len(b) \/ (Len(a) = Len(b) /\ LexGT(a, b))

DigitSeq(s) == [k \in 1..Len(s) |-> DigitVal(s[k])]

\* the largest and (in magnitude) the smallest value of a C int, as digits:
\* datetime() converts its arguments to C ints
CIntMaxDigits == <<2, 1, 4, 7, 4, 8, 3, 6, 4, 7>>

CIntMinDigits == <<2, 1, 4, 7, 4, 8, 3, 6, 4, 8>>

\* an integer of any size: a sign and the digits of its magnitude
BigInt(neg, ds) ==
    LET d == StripLeadingZeros(ds)
    IN  [neg |-> neg /\ d # <<>>, digs |-> d]

\* the value of a BigInt of at most 9 digits
SmallValue(b) == IF b.neg THEN -DigitsValue(b.digs) ELSE DigitsValue(b.digs)

IsSmall(b) == Len(b.digs) <= 9

FitsCInt(b) ==
    ~MagGT(b.digs, IF b.neg THEN CIntMinDigits ELSE CIntMaxDigits)

\* the text of an int after its sign
IntBody(t) == IF t # <<>> /\ Head(t) \in SignChars THEN Tail(t) ELSE t

\* digits, with single underscores between digits
WellFormedInt(ds) ==
    /\ ds # <<>>
    /\ \A k \in 1..Len(ds) : ds[k] \in DigitChars \cup {"_"}
    /\ ds[1] # "_" /\ ds[Len(ds)] # "_"
    /\ \A k \in 1..(Len(ds) - 1) : ~(ds[k] = "_" /\ ds[k + 1] = "_")

PyIntStripped(t) ==
    IF WellFormedInt(IntBody(t))
    THEN [ok  |-> TRUE,
          val |-> BigInt(Head(t) = "-",
                         DigitSeq(SelectSeq(IntBody(t), LAMBDA c : c # "_")))]
    ELSE [ok |-> FALSE, val |-> BigInt(FALSE, <<>>)]

\* int(s) of a string: surrounding whitespace is stripped, one sign is
\* allowed, then digits, with single underscores between digits.
\* [ok |-> FALSE] stands for ValueError.
PyInt(s) == PyIntStripped(Strip(s))

\* a double, as the exact decimal the text denotes: sign, significant
\* digits (no leading or trailing zero) and the power of ten of the last
\* digit; inf marks a magnitude beyond the range of a double
FloatZero == [neg |-> FALSE, digs |-> <<>>, e |-> 0, inf |-> FALSE]

FloatInf(neg) == [neg |-> neg, digs |-> <<>>, e |-> 0, inf |-> TRUE]

\* the decimal exponents beyond which a double overflows to inf or
\* underflows to 0.0
DoubleMaxExp10 == 308

DoubleMinExp10 == 324

\* the leading digits of the least decimal of exponent 308 that rounds to
\* inf (the largest double plus half a unit in its last place)
DoubleOverflowDigits ==
    <<1, 7, 9, 7, 6, 9, 3, 1, 3, 4, 8, 6, 2, 3, 1, 5, 8, 0, 7>>

\* the leading digits of the largest decimal of exponent -324 that rounds
\* to 0.0 (half the least positive double)
DoubleUnderflowDigits ==
    <<2, 4, 7, 0, 3, 2, 8, 2, 2, 9, 2, 0, 6, 2, 3, 2, 7, 2, 0>>

\* ds cut or zero-padded on the right to n digits
PadDigits(ds, n) == [k \in 1..n |-> IF k <= Len(ds) THEN ds[k] ELSE 0]

\* exponents of more digits than this are beyond any double
ExpDigitsCap == 4

RECURSIVE DigitRunEnd(_, _)
\* the index after the run of digits that starts at p (p itself if none)
DigitRunEnd(s, p) ==
    IF p <= Len(s) /\ s[p] \in DigitChars THEN DigitRunEnd(s, p + 1) ELSE p

\* the double nearest the decimal of sign neg, significant digits digs
\* and power of ten e of the last digit
RoundDecimal(neg, digs, e) ==
    LET order == e + Len(digs) - 1
    IN  IF digs = <<>> THEN FloatZero
        ELSE IF order > DoubleMaxExp10 THEN FloatInf(neg)
        ELSE IF /\ order = DoubleMaxExp10
                /\ LexGT(PadDigits(digs, Len(DoubleOverflowDigits)),
                         DoubleOverflowDigits)
             THEN FloatInf(neg)
        ELSE IF order < -DoubleMinExp10 THEN FloatZero
        ELSE IF /\ order = -DoubleMinExp10
                /\ ~LexGT(PadDigits(digs, Len(DoubleUnderflowDigits)),
                          DoubleUnderflowDigits)
             THEN FloatZero
        ELSE [neg |-> neg, digs |-> digs, e |-> e, inf |-> FALSE]

\* as RoundDecimal, of digits that may end in zeros
Decimal(neg, all, e) ==
    LET tz == CountTrailingZeros(all)
    IN  RoundDecimal(neg, SubSeq(all, 1, Len(all) - tz), e + tz)

\* the magnitude of an exponent of digits ds
ExponentMagnitude(ds) ==
    IF Len(ds) > ExpDigitsCap THEN Pow10(ExpDigitsCap) ELSE DigitsValue(ds)

\* the exponent the token holds from its marker at f on, 0 if it ends
\* before f
ExponentValue(tok, f) ==
    IF f > Len(tok) THEN 0
    ELSE IF f + 1 <= Len(tok) /\ tok[f + 1] = "-"
    THEN -ExponentMagnitude(
              StripLeadingZeros(DigitSeq(SubSeq(tok, f + 2, Len(tok)))))
    ELSE IF f + 1 <= Len(tok) /\ tok[f + 1] = "+"
    THEN ExponentMagnitude(
              StripLeadingZeros(DigitSeq(SubSeq(tok, f + 2, Len(tok)))))
    ELSE ExponentMagnitude(
              StripLeadingZeros(DigitSeq(SubSeq(tok, f + 1, Len(tok)))))

\* the token's value, its whole digits being at p0..a-1 and its fraction,
\* if any, at a+1..f-1
FloatParts(tok, p0, a, f) ==
    Decimal(tok[1] = "-",
            StripLeadingZeros(DigitSeq(SubSeq(tok, p0, a - 1))
                                \o DigitSeq(SubSeq(tok, a + 1, f - 1))),
            ExponentValue(tok, f) - Max(0, f - a - 1))

FloatFrom(tok, p0, a) ==
    FloatParts(tok, p0, a,
               IF a <= Len(tok) /\ tok[a] = "."
               THEN DigitRunEnd(tok, a + 1) ELSE a)

\* float(s.replace('D','E').replace('d','e')) of a token of the numeric
\* regular expressions: [sign] digits [. digits] [marker [sign] digits]
ParseFloat(tok) ==
    LET p0 == IF tok[1] \in SignChars THEN 2 ELSE 1
    IN  FloatFrom(tok, p0, DigitRunEnd(tok, p0))

\* the digits after which a whole number needs no more to be compared
\* with the C int limits
BigDigitsCap == 12

\* int(x) of a finite double: truncation towards zero
FloatTrunc(x) ==
    IF x.e >= 0
    THEN BigInt(x.neg, x.digs \o [k \in 1..Min(x.e, BigDigitsCap) |-> 0])
    ELSE BigInt(x.neg, SubSeq(x.digs, 1, Len(x.digs) + x.e))

\* ------------------------------------------------------------------------
\* Numeric token extraction (re.findall)
\* ------------------------------------------------------------------------

\* the index after the exponent part (?:[DEde][+-]?\d+)? at b: b itself
\* when the marker or its digits are missing
MatchExponent(s, b, x0) ==
    IF b <= Len(s) /\ s[b] \in ExpChars /\ DigitRunEnd(s, x0) > x0
    THEN DigitRunEnd(s, x0)
    ELSE b

\* the index after the fraction part at a; strictFrac tells the two
\* patterns apart: the clock line's has (?:\.\d*)?, the four-value one
\* has (?:\.\d+)?
MatchFraction(s, a, f, strictFrac) ==
    LET b == IF strictFrac /\ f = a + 1 THEN a ELSE f
    IN  MatchExponent(s, b,
                      IF b + 1 <= Len(s) /\ s[b + 1] \in SignChars
                      THEN b + 2 ELSE b + 1)

MatchDigits(s, a, strictFrac) ==
    MatchFraction(s, a,
                  IF a <= Len(s) /\ s[a] = "." THEN DigitRunEnd(s, a + 1)
                  ELSE a,
                  strictFrac)

\* The index after the match that starts at p, or 0 when nothing matches
\* at p
MatchEnd(s, p, strictFrac) ==
    LET d0 == IF s[p] \in SignChars THEN p + 1 ELSE p
    IN  IF d0 > Len(s) \/ s[d0] \notin DigitChars THEN 0
        ELSE MatchDigits(s, DigitRunEnd(s, d0), strictFrac)

RECURSIVE FindAllFrom(_, _, _)
RECURSIVE FindNext(_, _, _, _)
FindAllFrom(s, p, strictFrac) ==
    IF p > Len(s) THEN <<>>
    ELSE IF MatchEnd(s, p, strictFrac) = 0
    THEN FindAllFrom(s, p + 1, strictFrac)
    ELSE FindNext(s, p, MatchEnd(s, p, strictFrac), strictFrac)

\* the match p..q-1, then the matches from q on
FindNext(s, p, q, strictFrac) ==
    <<SubSeq(s, p, q - 1)>> \o FindAllFrom(s, q, strictFrac)

\* re.findall(r'[+-]?\d+(?:\.\d*)?(?:[DEde][+-]?\d+)?', s)
FindNumbersClock(s) == FindAllFrom(s, 1, FALSE)

\* re.findall(r'[+-]?\d+(?:\.\d+)?(?:[DEde][+-]?\d+)?', s)
FindNumbersFour(s) == FindAllFrom(s, 1, TRUE)

\* ------------------------------------------------------------------------
\* Calendar (datetime)
\* ------------------------------------------------------------------------

IsLeapYear(y) == (y % 4 = 0 /\ y % 100 # 0) \/ y % 400 = 0

DaysInMonth(y, m) ==
    IF m = 2 THEN (IF IsLeapYear(y) THEN 29 ELSE 28)
    ELSE IF m \in {4, 6, 9, 11} THEN 30 ELSE 31

\* the checks of the datetime constructor on arguments that fit a C int
DateTimeInRange(y, mo, da, hh, mm, ss) ==
    /\ y \in 1..9999
    /\ mo \in 1..12
    /\ da >= 1 /\ da <= DaysInMonth(y, mo)
    /\ hh \in 0..23
    /\ mm \in 0..59
    /\ ss \in 0..59

\* days from 0001-01-01 to y-m-d (date.toordinal() - 1)
DaysBeforeYear(y) ==
    LET p == y - 1 IN 365 * p + (p \div 4) - (p \div 100) + (p \div 400)

RECURSIVE DaysBeforeMonth(_, _)
DaysBeforeMonth(y, m) ==
    IF m <= 1 THEN 0 ELSE DaysBeforeMonth(y, m - 1) + DaysInMonth(y, m - 1)

Ordinal0(y, m, d) == DaysBeforeYear(y) + DaysBeforeMonth(y, m) + (d - 1)

\* ------------------------------------------------------------------------
\* parse_epoch_tokens
\* ------------------------------------------------------------------------

PivotYearSwapped(yy) == IF yy < 80 THEN 1900 + yy ELSE 2000 + yy

\* year = 1900 + yy if yy >= 80 else 2000 + yy
PivotYear(yy) == IF yy >= 80 THEN 1900 + yy ELSE 2000 + yy

\* the largest yy whose year 1900 + yy fits a C int, and the magnitude of
\* the least yy whose year 2000 + yy does
YearMaxDigits == <<2, 1, 4, 7, 4, 8, 1, 7, 4, 7>>

YearMinDigits == <<2, 1, 4, 7, 4, 8, 5, 6, 4, 8>>

YearFitsCInt(yy) ==
    IsSmall(yy) \/ ~MagGT(yy.digs, IF yy.neg THEN YearMinDigits ELSE YearMaxDigits)

NoEpoch == <<0, 0, 0, 0, 0, 0>>

\* datetime(year, mo, dd, hh, mm, ss) of the year field yy, the fields
\* ints and the truncated seconds ss: OverflowError on an argument that
\* does not fit a C int, ValueError on one out of range
EpochOf(yy, ints, ss) ==
    IF \/ ~YearFitsCInt(yy)
       \/ \E k \in 2..5 : ~FitsCInt(ints[k].val)
       \/ ~FitsCInt(ss)
    THEN [kind |-> "OverflowError", toc |-> NoEpoch]
    ELSE IF \/ ~IsSmall(yy)
            \/ \E k \in 2..5 : ~IsSmall(ints[k].val)
            \/ ~IsSmall(ss)
    THEN [kind |-> "ValueError", toc |-> NoEpoch]
    ELSE IF DateTimeInRange(PivotYear(SmallValue(yy)),
                            SmallValue(ints[2].val), SmallValue(ints[3].val),
                            SmallValue(ints[4].val), SmallValue(ints[5].val),
                            SmallValue(ss))
    THEN [kind |-> "ok",
          toc  |-> << PivotYear(SmallValue(yy)),
                      SmallValue(ints[2].val), SmallValue(ints[3].val),
                      SmallValue(ints[4].val), SmallValue(ints[5].val),
                      SmallValue(ss) >>]
    ELSE [kind |-> "ValueError", toc |-> NoEpoch]

\* the conversions of parse_epoch_tokens, in their order: int() of
\* tokens 0..4 raises ValueError on anything but a whole number, and
\* int(float()) of token 5 raises OverflowError on inf
EpochFields(ints, sec) ==
    IF \E k \in 1..5 : ~ints[k].ok
    THEN [kind |-> "ValueError", toc |-> NoEpoch]
    ELSE IF sec.inf
    THEN [kind |-> "OverflowError", toc |-> NoEpoch]
    ELSE EpochOf(ints[1].val, ints, FloatTrunc(sec))

\* parse_epoch_tokens(tokens): kind is "ok" with the epoch in toc, or the
\* exception raised
ParseEpochTokens(tokens) ==
    EpochFields([k \in 1..5 |-> PyInt(tokens[k])], ParseFloat(tokens[6]))

\* ------------------------------------------------------------------------
\* extract_gps_ephemeris
\* ------------------------------------------------------------------------

\* lines per satellite block
BlockLines == 8

\* the clock line must hold at least this many numbers
MinClockTokens == 8

DigitChar(d) ==
    CASE d = 0 -> "0" [] d = 1 -> "1" [] d = 2 -> "2" [] d = 3 -> "3"
      [] d = 4 -> "4" [] d = 5 -> "5" [] d = 6 -> "6" [] d = 7 -> "7"
      [] d = 8 -> "8" [] d = 9 -> "9"

\* format(n, '02d'): the sign, then zeros up to a width of 2, then digits
Format02d(b) ==
    LET ds   == IF b.digs = <<>> THEN <<"0">>
                ELSE [k \in 1..Len(b.digs) |-> DigitChar(b.digs[k])]
        sign == IF b.neg THEN <<"-">> ELSE <<>>
        pad  == [k \in 1..(2 - Len(sign) - Len(ds)) |-> "0"]
    IN  sign \o pad \o ds

PrnRawShifted(line) == Strip(Slice(line, 1, 3))

\* prn_raw = seg[0][0:2].strip()
PrnRaw(line) == Strip(Slice(line, 0, 2))

\* prn_raw.startswith('R') or prn_raw.startswith('E')
IsNonGps(prn_raw) ==
    StartsWith(prn_raw, <<"R">>) \/ StartsWith(prn_raw, <<"E">>)

\* f"G{int(prn_raw):02d}"
FormatPrn(b) == <<"G">> \o Format02d(b)

ClockTermsShifted(nums) ==
    << ParseFloat(nums[7]),
       ParseFloat(nums[8]),
       IF Len(nums) > 8 THEN ParseFloat(nums[Len(nums)]) ELSE FloatZero >>

\* af0, af1, af2: the 7th and 8th numbers, and the 9th if there is one
ClockTerms(nums) ==
    << ParseFloat(nums[7]),
       ParseFloat(nums[8]),
       IF Len(nums) > 8 THEN ParseFloat(nums[9]) ELSE FloatZero >>

FourWholeLine(ln) ==
    [k \in 1..4 |->
        ParseFloat((FindNumbersFour(ln) \o << <<"0">>, <<"0">>, <<"0">>, <<"0">> >>)[k])]

RECURSIVE PadNumbers(_)
\* while len(numbers) < 4: numbers.append('0.0')
PadNumbers(numbers) ==
    IF Len(numbers) < 4 THEN PadNumbers(Append(numbers, <<"0", ".", "0">>))
    ELSE numbers

\* four(ln): the first four numbers of the line from column 4 on
Four(ln) ==
    LET line_content == Strip(SliceFrom(ln, 3))
        numbers      == PadNumbers(FindNumbersFour(line_content))
    IN  [k \in 1..4 |-> ParseFloat(numbers[k])]

\* the dictionary appended to ephs (its fields, like those of every record
\* here, in the order in which TLC keeps them: e comes first)
EphRecord(prn, toc, ck, l2, l3, l4, l5, l6) ==
    [e |-> l3[2],
     toc |-> toc, prn |-> prn,
     af0 |-> ck[1], af1 |-> ck[2], af2 |-> ck[3],
     IODE |-> l2[1], Crs |-> l2[2], DeltaN |-> l2[3], M0 |-> l2[4],
     Cuc |-> l3[1], Cus |-> l3[3], sqrtA |-> l3[4],
     Toe |-> l4[1], Cic |-> l4[2], Omega0 |-> l4[3], Cis |-> l4[4],
     i0 |-> l5[1], Crc |-> l5[2], omega |-> l5[3], OmegaDot |-> l5[4],
     IDOT |-> l6[1]]

\* a pass that appends nothing
NoRecord(kind) == [kind |-> kind, recs |-> <<>>]

\* the pass from parse_epoch_tokens on, ep being its outcome
ParseOrbit(seg, prn, nums, ep) ==
    IF ep.kind = "ValueError" THEN NoRecord("bad_epoch")
    ELSE IF ep.kind = "OverflowError" THEN NoRecord("raise")
    ELSE [kind |-> "record",
          recs |-> << EphRecord(FormatPrn(prn), ep.toc, ClockTerms(nums),
                                Four(seg[2]), Four(seg[3]), Four(seg[4]),
                                Four(seg[5]), Four(seg[6])) >>]

\* the pass from the clock line's numbers on
ParseClock(seg, prn, nums) ==
    IF Len(nums) < MinClockTokens THEN NoRecord("few_tokens")
    ELSE ParseOrbit(seg, prn, nums, ParseEpochTokens(SubSeq(nums, 1, 6)))

\* the pass from int(prn_raw) on, prn being its outcome
ParsePrn(seg, prn) ==
    IF ~prn.ok THEN NoRecord("bad_prn")
    ELSE ParseClock(seg, prn.val, FindNumbersClock(SliceFrom(seg[1], 2)))

\* the outcome of one pass of the loop body on the block seg:
\* kind tells the branch taken, recs holds the record appended, if any
ParseBlock(seg) ==
    IF PrnRaw(seg[1]) = <<>> THEN NoRecord("empty_prn")
    ELSE IF IsNonGps(PrnRaw(seg[1])) THEN NoRecord("non_gps")
    ELSE ParsePrn(seg, PyInt(PrnRaw(seg[1])))

\* while i + 7 < len(body)
HasBlock(body, i) == i + (BlockLines - 1) < Len(body)

\* seg = body[i:i+8]
BlockAt(body, i) == Slice(body, i, i + BlockLines)

NextBlockIndexOffByOne(i) == i + BlockLines + 1

\* i += 8
NextBlockIndex(i) == i + BlockLines

RECURSIVE ExtractFrom(_, _, _)
RECURSIVE ExtractNext(_, _, _, _)
\* the loop of extract_gps_ephemeris from index i with ephs collected so
\* far: [ephs |-> result, raised |-> an OverflowError left the function]
ExtractFrom(body, i, ephs) ==
    IF ~HasBlock(body, i) THEN [ephs |-> ephs, raised |-> FALSE]
    ELSE ExtractNext(body, i, ephs, ParseBlock(BlockAt(body, i)))

\* the pass on the block at i having ended as r, the rest of the loop
ExtractNext(body, i, ephs, r) ==
    IF r.kind = "raise" THEN [ephs |-> <<>>, raised |-> TRUE]
    ELSE ExtractFrom(body, NextBlockIndex(i), ephs \o r.recs)

\* extract_gps_ephemeris(body)
ExtractGpsEphemeris(body) == ExtractFrom(body, 0, <<>>)

\* ------------------------------------------------------------------------
\* Navigation message reader
\* ------------------------------------------------------------------------

LowerLetters ==
    <<"a", "b", "c", "d", "e", "f", "g", "h", "i", "j", "k", "l", "m",
      "n", "o", "p", "q", "r", "s", "t", "u", "v", "w", "x", "y", "z">>

UpperLetters ==
    <<"A", "B", "C", "D", "E", "F", "G", "H", "I", "J", "K", "L", "M",
      "N", "O", "P", "Q", "R", "S", "T", "U", "V", "W", "X", "Y", "Z">>

MapChar(c, from, to) ==
    IF \E k \in 1..Len(from) : from[k] = c
    THEN to[CHOOSE k \in 1..Len(from) : from[k] = c]
    ELSE c

\* str.upper()
Upper(s) == [k \in 1..Len(s) |-> MapChar(s[k], LowerLetters, UpperLetters)]

\* str.lower()
Lower(s) == [k \in 1..Len(s) |-> MapChar(s[k], UpperLetters, LowerLetters)]

EndOfHeader == 
    <<"E", "N", "D", " ", "O", "F", " ",
      "H", "E", "A", "D", "E", "R">>

LeapSecondsLabel == 
    <<"L", "E", "A", "P", " ", "S", "E",
      "C", "O", "N", "D", "S">>

GlonassLabel == <<"G", "L", "O", "N", "A", "S", "S">>

GpsLabel == <<"G", "P", "S">>

NavDataLabel == <<"N", "A", "V", " ", "D", "A", "T", "A">>

\* the fallback of get_leap_seconds, and the initial leap_seconds
DefaultLeapSeconds == 18

RECURSIVE SplitFrom(_, _, _, _)
\* the loop of split_header_body: each line goes to header until a line
\* with the marker has been appended, and to body afterwards
SplitFrom(lines, header, body, end) ==
    IF lines = <<>> THEN [body |-> body, header |-> header]
    ELSE LET ln == Head(lines)
         IN  SplitFrom(Tail(lines),
                       IF ~end THEN Append(header, ln) ELSE header,
                       IF end THEN Append(body, ln) ELSE body,
                       end \/ Contains(ln, EndOfHeader))

\* split_header_body(lines)
SplitHeaderBody(lines) == SplitFrom(lines, <<>>, <<>>, FALSE)

RECURSIVE GetLeapSeconds(_)
\* get_leap_seconds(header): int(ln[:6]) of the first line that holds
\* LEAP SECONDS, 18 if that fails or no line holds it
GetLeapSeconds(header) ==
    IF header = <<>> THEN DefaultLeapSeconds
    ELSE IF Contains(Head(header), LeapSecondsLabel)
    THEN LET v == PyInt(Slice(Head(header), 0, 6))
         IN  IF v.ok THEN SmallValue(v.val) ELSE DefaultLeapSeconds
    ELSE GetLeapSeconds(Tail(header))

RECURSIVE HeaderFileType(_)
\* the header scan of load_nav and auto_load_default: the first line that
\* names a system decides
HeaderFileType(header) ==
    IF header = <<>> THEN "UNKNOWN"
    ELSE LET up == Upper(Head(header))
         IN  IF Contains(up, GlonassLabel) THEN "GLONASS"
             ELSE IF Contains(up, GpsLabel) \/ Contains(up, NavDataLabel)
             THEN "GPS"
             ELSE HeaderFileType(Tail(header))

\* the file type: the header's, else the one the file name's extension
\* gives
FileType(header, path) ==
    LET fname == Lower(path)
        t     == HeaderFileType(header)
    IN  IF t # "UNKNOWN" THEN t
        ELSE IF EndsWith(fname, <<".", "g">>) THEN "GLONASS"
        ELSE IF EndsWith(fname, <<".", "n">>) THEN "GPS"
        ELSE "UNKNOWN"

\* ------------------------------------------------------------------------
\* GPS time
\* ------------------------------------------------------------------------

SecondsPerDay == 86400

SecondsPerWeek == 604800

HalfWeek == 302400

\* the GPS epoch 1980-01-06, and the last day a datetime can hold
GpsEpochOrdinal == Ordinal0(1980, 1, 6)

MaxOrdinal == Ordinal0(9999, 12, 31)

SecondOfDay(t) == t[4] * 3600 + t[5] * 60 + t[6]

\* dt_utc + timedelta(seconds=leap_seconds) raises OverflowError when the
\* sum leaves the range of datetime
GpsTimeOverflows(t, leap_seconds) ==
    LET day == Ordinal0(t[1], t[2], t[3])
              + ((SecondOfDay(t) + leap_seconds) \div SecondsPerDay)
    IN  day < 0 \/ day > MaxOrdinal

\* utc_to_gps_seconds_of_week(dt_utc, leap_seconds) = <<week, sow>>, with
\* total_seconds = days * 86400 + seconds split by whole weeks of days
UtcToGpsSecondsOfWeek(t, leap_seconds) ==
    LET days == Ordinal0(t[1], t[2], t[3]) - GpsEpochOrdinal
        rest == (days % 7) * SecondsPerDay + SecondOfDay(t) + leap_seconds
    IN  << (days \div 7) + (rest \div SecondsPerWeek), rest % SecondsPerWeek >>

RECURSIVE NormalizeTk(_)
\* normalize_tk(tk)
NormalizeTk(tk) ==
    IF tk > HalfWeek THEN NormalizeTk(tk - SecondsPerWeek)
    ELSE IF tk < -HalfWeek THEN NormalizeTk(tk + SecondsPerWeek)
    ELSE tk

\* ------------------------------------------------------------------------
\* Ephemeris selector
\* ------------------------------------------------------------------------

\* the value of a double that is a whole number of seconds
WholeSeconds(x) ==
    (IF x.neg THEN -1 ELSE 1) * DigitsValue(x.digs) * Pow10(x.e)

UnwrappedKey(sow, toe) == Abs(sow - toe)

\* the key of min(): abs((sow - x['Toe'] + 302400) % 604800 - 302400)
FoldedKey(sow, toe) ==
    Abs(((sow - toe + HalfWeek) % SecondsPerWeek) - HalfWeek)

\* cand = [e for e in self.ephs if e['prn'] == sv]
Candidates(ephs, sv) == SelectSeq(ephs, LAMBDA x : x.prn = sv)

\* min(cand, key=...): the first element whose key is least
PickEphemeris(cand, sow) ==
    cand[CHOOSE k \in 1..Len(cand) :
            /\ \A j \in 1..Len(cand) :
                   FoldedKey(sow, WholeSeconds(cand[j].Toe))
                       >= FoldedKey(sow, WholeSeconds(cand[k].Toe))
            /\ \A j \in 1..(k - 1) :
                   FoldedKey(sow, WholeSeconds(cand[j].Toe))
                       > FoldedKey(sow, WholeSeconds(cand[k].Toe))]

\* ------------------------------------------------------------------------
\* The observation time text (datetime.strptime)
\* ------------------------------------------------------------------------

\* The length (2 or 1) of the numeric field at p that one alternative of
\* the directive matches with the separator right after it, 0 if none
\* does; the two-character alternatives are tried first.
FieldLen(s, p, Ok2(_, _), Ok1(_), IsSep(_)) ==
    IF p + 2 <= Len(s) /\ Ok2(s[p], s[p + 1]) /\ IsSep(s[p + 2]) THEN 2
    ELSE IF p + 1 <= Len(s) /\ Ok1(s[p]) /\ IsSep(s[p + 1]) THEN 1
    ELSE 0

\* as FieldLen for the last directive, which must end the text
LastFieldLen(s, p, Ok2(_, _), Ok1(_)) ==
    IF p + 1 = Len(s) /\ Ok2(s[p], s[p + 1]) THEN 2
    ELSE IF p = Len(s) /\ Ok1(s[p]) THEN 1
    ELSE 0

RECURSIVE SpaceRunEnd(_, _)
SpaceRunEnd(s, p) ==
    IF p <= Len(s) /\ s[p] \in SpaceChars THEN SpaceRunEnd(s, p + 1) ELSE p

\* the number a field of digits (and blanks) denotes
FieldValue(s, p, n) ==
    DigitsValue(DigitSeq(SelectSeq(SubSeq(s, p, p + n - 1),
                                   LAMBDA c : c \in DigitChars)))

\* %m: 1[0-2]|0[1-9]|[1-9]
MonthOk2(a, b) == (a = "1" /\ b \in {"0", "1", "2"})
                  \/ (a = "0" /\ b \in DigitChars \ {"0"})

\* %d: 3[0-1]|[1-2]\d|0[1-9]|[1-9]| [1-9]
DayOk2(a, b) == \/ (a = "3" /\ b \in {"0", "1"})
                \/ (a \in {"1", "2"} /\ b \in DigitChars)
                \/ (a \in {"0", " "} /\ b \in DigitChars \ {"0"})

NonZeroDigit(a) == a \in DigitChars \ {"0"}

AnyDigit(a) == a \in DigitChars

\* %H: 2[0-3]|[0-1]\d|\d
HourOk2(a, b) == (a = "2" /\ b \in {"0", "1", "2", "3"})
                 \/ (a \in {"0", "1"} /\ b \in DigitChars)

\* %M: [0-5]\d|\d
MinuteOk2(a, b) == a \in {"0", "1", "2", "3", "4", "5"} /\ b \in DigitChars

\* %S: 6[0-1]|[0-5]\d|\d
SecondOk2(a, b) == (a = "6" /\ b \in {"0", "1"}) \/ MinuteOk2(a, b)

IsDash(c) == c = "-"

IsBlank(c) == c \in SpaceChars

IsColon(c) == c = ":"

\* ValueError
BadTime == [t |-> NoEpoch, ok |-> FALSE]

\* datetime(*fields) of the fields strptime has read
StrpDate(t) ==
    IF DateTimeInRange(t[1], t[2], t[3], t[4], t[5], t[6])
    THEN [t |-> t, ok |-> TRUE]
    ELSE BadTime

\* Each directive in turn: t holds the fields read so far, and the
\* directive's field is the n characters at p (none matches when n = 0)
StrpSecond(s, t, p, n) ==
    IF n = 0 THEN BadTime ELSE StrpDate(Append(t, FieldValue(s, p, n)))

StrpMinute(s, t, p, n) ==
    IF n = 0 THEN BadTime
    ELSE StrpSecond(s, Append(t, FieldValue(s, p, n)), p + n + 1,
                    LastFieldLen(s, p + n + 1, SecondOk2, AnyDigit))

StrpHour(s, t, p, n) ==
    IF n = 0 THEN BadTime
    ELSE StrpMinute(s, Append(t, FieldValue(s, p, n)), p + n + 1,
                    FieldLen(s, p + n + 1, MinuteOk2, AnyDigit, IsColon))

\* the blank of the format stands for a run of whitespace
StrpBlank(s, t, p) ==
    StrpHour(s, t, p, FieldLen(s, p, HourOk2, AnyDigit, IsColon))

StrpDay(s, t, p, n) ==
    IF n = 0 THEN BadTime
    ELSE StrpBlank(s, Append(t, FieldValue(s, p, n)), SpaceRunEnd(s, p + n))

StrpMonth(s, t, p, n) ==
    IF n = 0 THEN BadTime
    ELSE StrpDay(s, Append(t, FieldValue(s, p, n)), p + n + 1,
                 FieldLen(s, p + n + 1, DayOk2, NonZeroDigit, IsBlank))

\* datetime.strptime(s, '%Y-%m-%d %H:%M:%S'): [ok |-> FALSE] stands for
\* ValueError, else t is <<year, month, day, hour, minute, second>>
StrpTime(s) ==
    IF ~(/\ Len(s) >= 5
         /\ \A k \in 1..4 : s[k] \in DigitChars
         /\ s[5] = "-")
    THEN BadTime
    ELSE StrpMonth(s, <<FieldValue(s, 1, 4)>>, 6,
                   FieldLen(s, 6, MonthOk2, NonZeroDigit, IsDash))

\* ------------------------------------------------------------------------
\* Inputs: lines, blocks and files
\* ------------------------------------------------------------------------

\* epoch 2023-09-09 00:00:00 and three clock terms: 9 numbers
Clock9 ==
    <<" ", "2", "3", " ", "9", " ", "9", " ", "0", " ", "0", " ", "0", ".",
      "0", " ", "1", "D", "-", "4", "-", "2", "D", "-", "9", " ", "3", "D",
      "0", "\n">>

\* no clock drift rate: 8 numbers
Clock8 ==
    <<" ", "2", "3", " ", "9", " ", "9", " ", "0", " ", "0", " ", "0", ".",
      "0", " ", "1", "D", "-", "4", " ", "2", "D", "-", "9", "\n">>

\* year 99, and a number after the clock terms: 10 numbers
Clock10 ==
    <<" ", "9", "9", " ", "1", " ", "2", " ", "3", " ", "4", " ", "5", ".",
      "5", " ", "1", " ", "2", " ", "3", " ", "4", "\n">>

\* the clock drift is missing: 7 numbers
Clock7 ==
    <<" ", "2", "3", " ", "9", " ", "9", " ", "0", " ", "0", " ", "0", ".",
      "0", " ", "1", "D", "-", "4", "\n">>

\* year 80
ClockYear80 ==
    <<" ", "8", "0", " ", "1", " ", "6", " ", "0", " ", "0", " ", "0", " ",
      "1", " ", "2", "\n">>

\* year 79
ClockYear79 ==
    <<" ", "7", "9", " ", "1", "2", " ", "3", "1", " ", "2", "3", " ", "5",
      "9", " ", "5", "9", ".", " ", "1", " ", "2", " ", "3", "\n">>

\* month 13
ClockBadMonth ==
    <<" ", "2", "3", " ", "1", "3", " ", "9", " ", "0", " ", "0", " ", "0",
      ".", "0", " ", "1", " ", "2", " ", "3", "\n">>

\* the year is no whole number
ClockBadYear ==
    <<" ", "2", "3", ".", "5", " ", "9", " ", "9", " ", "0", " ", "0", " ",
      "0", " ", "1", " ", "2", "\n">>

\* the seconds overflow a double
ClockHugeSecond ==
    <<" ", "2", "3", " ", "9", " ", "9", " ", "0", " ", "0", " ", "1", "e",
      "9", "9", "9", " ", "1", " ", "2", "\n">>

\* the year overflows a C int
ClockHugeYear ==
    <<" ", "9", "9", "9", "9", "9", "9", "9", "9", "9", "9", "9", " ", "1",
      " ", "1", " ", "0", " ", "0", " ", "0", " ", "1", " ", "2", "\n">>

\* an empty rest of line
ClockNone == <<"\n">>

\* IODE, Crs, deltaN, M0
OrbitLine2 ==
    <<" ", " ", " ", "1", "D", "0", " ", "2", "D", "0", " ", "3", "D", "-",
      "9", "-", "4", "D", "-", "1", "\n">>

\* Cuc, e, Cus, sqrtA
OrbitLine3 ==
    <<" ", " ", " ", "1", "D", "-", "6", " ", "1", "D", "-", "2", " ", "2",
      "D", "-", "6", " ", "5", ".", "1", "5", "3", "6", "D", "3", "\n">>

\* Cuc and e only: Cus and sqrtA default to 0.0
OrbitLine3Short ==
    <<" ", " ", " ", "1", "D", "-", "6", " ", "1", "D", "-", "2", "\n">>

\* Cic, Omega0, Cis, after Toe
OrbitLine4Tail ==
    <<" ", "1", "D", "-", "7", " ", "1", ".", "5", "D", "0", " ", "2", "D",
      "-", "7", "\n">>

\* i0, Crc, omega, OmegaDot
OrbitLine5 ==
    <<" ", " ", " ", "9", ".", "6", "D", "-", "1", " ", "2", "D", "2", " ",
      "1", "D", "0", "-", "8", "D", "-", "9", "\n">>

\* IDOT and three unused numbers
OrbitLine6 ==
    <<" ", " ", " ", "1", "D", "-", "1", "0", " ", "1", " ", "2", " ", "3",
      "\n">>

OrbitLine7 == <<" ", " ", " ", "0", " ", "0", " ", "0", " ", "0", "\n">>

OrbitLine8 == <<" ", " ", " ", "0", "\n">>

\* header lines
HeaderGps ==
    <<" ", " ", " ", " ", " ", "2", ".", "1", "0", " ", "N", ":", " ", "G",
      "P", "S", " ", "N", "A", "V", " ", "D", "A", "T", "A", "\n">>

HeaderGlonass ==
    <<" ", " ", " ", " ", " ", "2", ".", "1", "0", " ", "G", "L", "O", "N",
      "A", "S", "S", " ", "N", "A", "V", " ", "D", "A", "T", "A", "\n">>

HeaderComment ==
    <<" ", "p", "g", "m", " ", "/", " ", "r", "u", "n", " ", "b", "y", " ",
      "/", " ", "d", "a", "t", "e", "\n">>

HeaderLeap18 ==
    <<" ", " ", " ", " ", "1", "8", " ", "L", "E", "A", "P", " ", "S", "E",
      "C", "O", "N", "D", "S", "\n">>

HeaderLeap17 ==
    <<" ", " ", " ", " ", "1", "7", " ", "L", "E", "A", "P", " ", "S", "E",
      "C", "O", "N", "D", "S", "\n">>

HeaderEnd ==
    <<" ", " ", " ", " ", " ", " ", "E", "N", "D", " ", "O", "F", " ", "H",
      "E", "A", "D", "E", "R", "\n">>

\* IODE, Crs, deltaN, M0, the first number starting in column 1
OrbitLine2Wide ==
    <<"-", "1", ".", "5", "D", "1", " ", "2", "D", "0", " ", "3", "D", "-",
      "9", "-", "4", "D", "-", "1", "\n">>

\* lines 2..8 of a block, with the text of Toe
OrbitLines(toe) ==
    << OrbitLine2, OrbitLine3, <<" ", " ", " ">> \o toe \o OrbitLine4Tail,
       OrbitLine5, OrbitLine6, OrbitLine7, OrbitLine8 >>

\* as OrbitLines, with lines 3 and 6 short of numbers
OrbitLinesShort(toe) ==
    << OrbitLine2, OrbitLine3Short,
       <<" ", " ", " ">> \o toe \o OrbitLine4Tail,
       OrbitLine5, <<"\n">>, OrbitLine7, OrbitLine8 >>

\* as OrbitLines, with a line 2 that does not leave columns 1..3 blank
OrbitLinesWide(toe) ==
    << OrbitLine2Wide, OrbitLine3,
       <<" ", " ", " ">> \o toe \o OrbitLine4Tail,
       OrbitLine5, OrbitLine6, OrbitLine7, OrbitLine8 >>

\* a block: the 2-character PRN field, the rest of line 1, lines 2..8
Block(prn, clock, orbit) == << prn \o clock >> \o orbit

Toe0 == <<"0">>

Toe7200 == <<"7", "2", "0", "0">>

Toe604500 == <<"6", ".", "0", "4", "5", "D", "5">>

Toe1000 == <<"1", "0", "0", "0">>

Toe3000 == <<"3", "D", "3">>

\* the contents of the PRN field
PrnFields ==
    { <<" ", "5">>, <<"1", "2">>, <<"5", " ">>, <<"+", "7">>,
      <<" ", " ">>, <<"R", "1">>, <<" ", "R">>, <<"E", "2">>,
      <<"-", "5">>, <<"G", "5">> }

ClockRests ==
    { Clock9, Clock8, Clock10, Clock7, ClockYear80, ClockYear79,
      ClockBadMonth, ClockBadYear, ClockHugeSecond, ClockHugeYear,
      ClockNone }

\* the blocks a body starts with: every PRN field with a good clock line,
\* every clock line with a good PRN field, a block short of numbers and
\* one with a number in the first columns of an orbit line
FirstBlocks ==
    { Block(f, Clock9, OrbitLines(Toe0)) : f \in PrnFields }
      \cup { Block(<<" ", "5">>, c, OrbitLines(Toe7200)) : c \in ClockRests }
      \cup { Block(<<" ", "5">>, Clock9, OrbitLinesShort(Toe0)) }
      \cup { Block(<<" ", "5">>, Clock9, OrbitLinesWide(Toe0)) }

\* the blocks that follow
LaterBlocks ==
    { Block(<<"1", "2">>, Clock9, OrbitLines(Toe604500)),
      Block(<<" ", "5">>, Clock8, OrbitLines(Toe0)),
      Block(<<"R", "1">>, Clock9, OrbitLines(Toe0)),
      Block(<<" ", "5">>, Clock7, OrbitLines(Toe0)),
      Block(<<" ", "5">>, ClockHugeSecond, OrbitLines(Toe0)) }

\* the most blocks of a body
MaxBlocks == 2

\* the lines after the last whole block
Trailers == { <<>>, <<OrbitLine7>>, SubSeq(OrbitLines(Toe0), 1, 7) }

RECURSIVE Flatten(_)
Flatten(ss) == IF ss = <<>> THEN <<>> ELSE Head(ss) \o Flatten(Tail(ss))

BlockSeqs ==
    { <<>> } \cup
    UNION { { <<b>> \o r : b \in FirstBlocks, r \in [1..n -> LaterBlocks] }
            : n \in 0..(MaxBlocks - 1) }

Bodies == { Flatten(bs) \o t : bs \in BlockSeqs, t \in Trailers }

\* ------------------------------------------------------------------------
\* The floats of the Kepler loop
\* ------------------------------------------------------------------------
\* A finite float is kept as a sign and a magnitude in fixed point: five
\* limbs of four decimal digits, the first the whole part, so that the
\* last limb counts units of 1e-16.  Products and quotients are cut to
\* that place.  inf and nan are kinds of their own.

FxBase == 10 ^ 4

LimbZero == <<0, 0, 0, 0, 0>>

RECURSIVE CarryFrom(_, _, _, _)
\* carries of the limbs k, k-1, ..., 1 of c; the carry out of limb 1 is
\* dropped
CarryFrom(c, k, carry, out) ==
    IF k = 0 THEN out
    ELSE CarryFrom(c, k - 1, (c[k] + carry) \div FxBase,
                   <<(c[k] + carry) % FxBase>> \o out)

LimbCarry(c) == CarryFrom(c, Len(c), 0, <<>>)

LimbAdd(a, b) == LimbCarry([k \in 1..Len(a) |-> a[k] + b[k]])

\* a - b for a >= b
LimbSub(a, b) ==
    LimbCarry([k \in 1..Len(a) |->
                  a[k] + (FxBase - 1 - b[k]) + IF k = Len(a) THEN 1 ELSE 0])

LimbLess(a, b) ==
    \E k \in 1..Len(a) : a[k] < b[k] /\ \A j \in 1..(k - 1) : a[j] = b[j]

RECURSIVE ConvAt(_, _, _, _)
\* the sum of a[j] * b[q + 1 - j] over j in k..min(q, Len(a))
ConvAt(a, b, q, k) ==
    IF k > Len(a) \/ k > q THEN 0
    ELSE a[k] * b[q + 1 - k] + ConvAt(a, b, q, k + 1)

\* a * b, cut to the last limb
LimbMul(a, b) ==
    SubSeq(LimbCarry([q \in 1..(2 * Len(a) - 1) |->
                         ConvAt(a, b, q, Max(1, q + 1 - Len(a)))]),
           1, Len(a))

RECURSIVE DivFrom(_, _, _, _, _)
DivFrom(a, n, k, rem, out) ==
    IF k > Len(a) THEN out
    ELSE DivFrom(a, n, k + 1, (rem * FxBase + a[k]) % n,
                 Append(out, (rem * FxBase + a[k]) \div n))

\* a / n for a small whole number n, cut to the last limb
LimbDiv(a, n) == DivFrom(a, n, 1, 0, <<>>)

FxFin(neg, mag) ==
    [neg |-> neg /\ mag # LimbZero, kind |-> "fin", mag |-> mag]

FxInf(neg) == [neg |-> neg, kind |-> "inf", mag |-> LimbZero]

FxNan == [neg |-> FALSE, kind |-> "nan", mag |-> LimbZero]

FxNeg(x) ==
    IF x.kind = "fin" THEN FxFin(~x.neg, x.mag)
    ELSE IF x.kind = "inf" THEN FxInf(~x.neg)
    ELSE x

\* x + y
FxAdd(x, y) ==
    IF x.kind = "nan" \/ y.kind = "nan" THEN FxNan
    ELSE IF x.kind = "inf"
    THEN IF y.kind = "inf" /\ y.neg # x.neg THEN FxNan ELSE x
    ELSE IF y.kind = "inf" THEN y
    ELSE IF x.neg = y.neg THEN FxFin(x.neg, LimbAdd(x.mag, y.mag))
    ELSE IF LimbLess(x.mag, y.mag) THEN FxFin(y.neg, LimbSub(y.mag, x.mag))
    ELSE FxFin(x.neg, LimbSub(x.mag, y.mag))

\* x * y
FxMul(x, y) ==
    IF x.kind = "nan" \/ y.kind = "nan" THEN FxNan
    ELSE IF x.kind = "inf" \/ y.kind = "inf"
    THEN IF (x.kind = "fin" /\ x.mag = LimbZero)
              \/ (y.kind = "fin" /\ y.mag = LimbZero)
         THEN FxNan
         ELSE FxInf(x.neg # y.neg)
    ELSE FxFin(x.neg # y.neg, LimbMul(x.mag, y.mag))

Pi == <<3, 1415, 9265, 3589, 7932>>

TwoPi == <<6, 2831, 8530, 7179, 5864>>

HalfPi == <<1, 5707, 9632, 6794, 8966>>

RECURSIVE SinSeries(_, _, _, _, _)
\* x - x^3/3! + x^5/5! - ... for x in [0, pi/2]: term is the term of
\* index k, pos and neg the sums of the terms added and subtracted so far
SinSeries(x2, term, k, pos, neg) ==
    IF term = LimbZero THEN LimbSub(pos, neg)
    ELSE SinSeries(x2,
                   LimbDiv(LimbMul(term, x2), (2 * k + 2) * (2 * k + 3)),
                   k + 1,
                   IF k % 2 = 0 THEN LimbAdd(pos, term) ELSE pos,
                   IF k % 2 = 1 THEN LimbAdd(neg, term) ELSE neg)

\* sin of a magnitude in [0, pi]
SinUpToPi(a) ==
    IF LimbLess(HalfPi, a)
    THEN SinSeries(LimbMul(LimbSub(Pi, a), LimbSub(Pi, a)), LimbSub(Pi, a),
                   0, LimbZero, LimbZero)
    ELSE SinSeries(LimbMul(a, a), a, 0, LimbZero, LimbZero)

\* sin of a magnitude in [0, 2 pi), with the sign neg of the argument
SinUpToTwoPi(neg, a) ==
    IF LimbLess(a, Pi) THEN FxFin(neg, SinUpToPi(a))
    ELSE FxFin(~neg, SinUpToPi(LimbSub(a, Pi)))

RECURSIVE LimbMod(_, _)
LimbMod(a, m) == IF LimbLess(a, m) THEN a ELSE LimbMod(LimbSub(a, m), m)

\* math.sin(x) of a finite or nan x; math.sin raises ValueError on inf
FxSin(x) ==
    IF x.kind = "fin" THEN SinUpToTwoPi(x.neg, LimbMod(x.mag, TwoPi))
    ELSE FxNan

ToleranceTight == <<0, 0, 0, 0, 100>>

\* 1e-12
Tolerance == <<0, 0, 0, 1, 0>>

\* Ek_next = Mk + e['e'] * math.sin(Ek)
KeplerNext(m, ecc, x) == FxAdd(m, FxMul(ecc, FxSin(x)))

\* abs(Ek_next - Ek) < 1e-12
ChangeBelowTolerance(next, x) ==
    /\ FxAdd(next, FxNeg(x)).kind = "fin"
    /\ LimbLess(FxAdd(next, FxNeg(x)).mag, Tolerance)

\* ------------------------------------------------------------------------
\* State
\* ------------------------------------------------------------------------

VARIABLES
    \* extract_gps_ephemeris, one pass of its loop at a time
    body,          \* the argument
    i,             \* the index of the next block
    p_ephs,        \* the local list ephs
    p_pc,          \* "loop", "done" (returned) or "raised" (left by an exception)
    p_last,        \* the branch the last pass took, "none" before the first
    \* normalize_tk, one loop iteration at a time
    tk_in,         \* the argument
    tk,            \* the local tk
    n_pc,          \* "down" (first loop), "up" (second loop) or "done"
    \* the session (App)
    leap_seconds,  \* self.leap_seconds
    ephs,          \* self.ephs
    cbo_values,    \* the values of the satellite combobox
    cbo_sv,        \* the text of the satellite combobox
    auto_pending,  \* the after(100, auto_load_default) callback is scheduled
    last,          \* the last handler run: how it ended and the message box shown
    result,        \* what the last computation used: <<>> before the first
    \* split_header_body, one line of its loop at a time
    s_lines,       \* the argument
    s_k,           \* the number of lines the loop has taken
    s_header,      \* the local list header
    s_body,        \* the local list body
    s_end,         \* the local flag end
    s_pc,          \* "loop" or "done" (returned)
    \* get_leap_seconds, one line of its loop at a time
    l_header,      \* the argument
    l_k,           \* the number of lines the loop has passed
    l_ret,         \* the value returned
    l_pc,          \* "loop" or "done" (returned)
    \* the Kepler loop of compute_gps_ecef, one pass at a time
    Mk,            \* the local Mk
    k_e,           \* e['e']
    Ek,            \* the local Ek
    k_n,           \* the number of passes made
    k_pc           \* "loop", "break" (left by break), "exhausted" (range(10)
                   \* ran out) or "raised" (left by an exception)

parserVars == <<body, i, p_ephs, p_pc, p_last>>

foldVars == <<tk_in, tk, n_pc>>

appVars == <<leap_seconds, ephs, cbo_values, cbo_sv,
             auto_pending, last, result>>

splitVars == <<s_lines, s_k, s_header, s_body, s_end, s_pc>>

leapVars == <<l_header, l_k, l_ret, l_pc>>

\* the functions that are also modelled on their own, a loop pass at a time
keplerVars == <<Mk, k_e, Ek, k_n, k_pc>>

unitVars == <<splitVars, leapVars, keplerVars>>

vars == <<body, i, p_ephs, p_pc, p_last, tk_in, tk, n_pc,
          leap_seconds, ephs, cbo_values, cbo_sv, auto_pending, last,
          result, s_lines, s_k, s_header, s_body, s_end, s_pc,
          l_header, l_k, l_ret, l_pc, Mk, k_e, Ek, k_n, k_pc>>

\* ------------------------------------------------------------------------
\* extract_gps_ephemeris as a state machine
\* ------------------------------------------------------------------------

ParserIdle ==
    /\ body = <<>> /\ i = 0 /\ p_ephs = <<>> /\ p_pc = "done" /\ p_last = "none"

ParserStart(b) ==
    /\ body = b /\ i = 0 /\ p_ephs = <<>> /\ p_pc = "loop" /\ p_last = "none"

\* one pass of the loop that ends in `continue` on the branch kind
Skip(kind) ==
    /\ p_pc = "loop"
    /\ HasBlock(body, i)
    /\ ParseBlock(BlockAt(body, i)).kind = kind
    /\ i' = NextBlockIndex(i)
    /\ p_last' = kind
    /\ UNCHANGED <<body, p_ephs, p_pc>>

\* prn_raw is empty
SkipEmptyPrn == Skip("empty_prn") /\ UNCHANGED <<foldVars, appVars, unitVars>>

\* prn_raw starts with R or E
SkipNonGps == Skip("non_gps") /\ UNCHANGED <<foldVars, appVars, unitVars>>

\* int(prn_raw) raises ValueError
SkipBadPrn == Skip("bad_prn") /\ UNCHANGED <<foldVars, appVars, unitVars>>

\* len(nums) < 8
SkipFewTokens == Skip("few_tokens") /\ UNCHANGED <<foldVars, appVars,
                                                   unitVars>>

\* parse_epoch_tokens raises ValueError
SkipBadEpoch == Skip("bad_epoch") /\ UNCHANGED <<foldVars, appVars, unitVars>>

\* parse_epoch_tokens raises OverflowError, which no except clause names
RaiseOverflow ==
    /\ p_pc = "loop"
    /\ HasBlock(body, i)
    /\ ParseBlock(BlockAt(body, i)).kind = "raise"
    /\ i' = NextBlockIndex(i)
    /\ p_last' = "raise"
    /\ p_pc' = "raised"
    /\ UNCHANGED <<body, p_ephs, foldVars, appVars, unitVars>>

\* ephs.append({...})
AppendRecord ==
    /\ p_pc = "loop"
    /\ HasBlock(body, i)
    /\ LET r == ParseBlock(BlockAt(body, i))
       IN  /\ r.kind = "record"
           /\ p_ephs' = p_ephs \o r.recs
    /\ i' = NextBlockIndex(i)
    /\ p_last' = "record"
    /\ UNCHANGED <<body, p_pc, foldVars, appVars, unitVars>>

\* the loop condition fails: return ephs
ReturnEphs ==
    /\ p_pc = "loop"
    /\ ~HasBlock(body, i)
    /\ p_pc' = "done"
    /\ UNCHANGED <<body, i, p_ephs, p_last, foldVars, appVars, unitVars>>

\* ------------------------------------------------------------------------
\* normalize_tk as a state machine
\* ------------------------------------------------------------------------

\* the offsets within a week of the arguments tried: around 0 and around
\* both ends of the half week
FoldOffsets ==
    { 0, 1, -1, HalfWeek - 1, HalfWeek, HalfWeek + 1,
      -HalfWeek + 1, -HalfWeek, -HalfWeek - 1, 86400, -7200 }

\* the arguments are at most this many weeks away from the half week
MaxWeeks == 4

FoldInputs ==
    { w * SecondsPerWeek + r : w \in (-MaxWeeks)..MaxWeeks, r \in FoldOffsets }

FoldIdle == tk_in = 0 /\ tk = 0 /\ n_pc = "done"

AboveHalfWide(x) == x > SecondsPerWeek

\* while tk > half
AboveHalf(x) == x > HalfWeek

\* while tk < -half
BelowHalf(x) == x < -HalfWeek

\* tk -= 604800.0
FoldDown ==
    /\ n_pc = "down"
    /\ AboveHalf(tk)
    /\ tk' = tk - SecondsPerWeek
    /\ UNCHANGED <<tk_in, n_pc, parserVars, appVars, unitVars>>

\* the first loop ends
FoldDownEnd ==
    /\ n_pc = "down"
    /\ ~AboveHalf(tk)
    /\ n_pc' = "up"
    /\ UNCHANGED <<tk_in, tk, parserVars, appVars, unitVars>>

\* tk += 604800.0
FoldUp ==
    /\ n_pc = "up"
    /\ BelowHalf(tk)
    /\ tk' = tk + SecondsPerWeek
    /\ UNCHANGED <<tk_in, n_pc, parserVars, appVars, unitVars>>

\* return tk
FoldReturn ==
    /\ n_pc = "up"
    /\ ~BelowHalf(tk)
    /\ n_pc' = "done"
    /\ UNCHANGED <<tk_in, tk, parserVars, appVars, unitVars>>

\* ------------------------------------------------------------------------
\* The files of the session
\* ------------------------------------------------------------------------

\* the paths the file entry can hold
PathA == <<"a", ".", "n">>

PathB == <<"b", ".", "n">>

PathC == <<"c", ".", "n">>

PathR == <<"r", ".", "g">>

PathE == <<"e", ".", "n">>

PathH == <<"h", ".", "n">>

PathM == <<"m", ".", "n">>

PathX == <<"x", ".", "n">>

PathD == <<"d">>

Paths == { PathA, PathB, PathC, PathR, PathE, PathH, PathM, PathX, PathD }

\* self.default_file exists, and it is the initial text of the entry
DefaultFile == PathA

\* os.path.exists(file_path): x.n is no file
Exists(path) == path \in Paths \ { PathX }

\* open() succeeds: d is a directory
Readable(path) == Exists(path) /\ path # PathD

\* read_file(path): the lines of the file
ReadFile(path) ==
    CASE path = PathA ->
           \* leap seconds 18; G05 twice, around the week boundary, G12
           <<HeaderGps, HeaderLeap18, HeaderEnd>>
             \o Block(<<" ", "5">>, Clock9, OrbitLines(Toe0))
             \o Block(<<" ", "5">>, Clock8, OrbitLines(Toe604500))
             \o Block(<<"1", "2">>, Clock9, OrbitLines(Toe7200))
             \o <<OrbitLine7>>
      [] path = PathB ->
           \* leap seconds 17; the second block's seconds overflow
           <<HeaderGps, HeaderLeap17, HeaderEnd>>
             \o Block(<<" ", "7">>, Clock9, OrbitLines(Toe1000))
             \o Block(<<" ", "5">>, ClockHugeSecond, OrbitLines(Toe0))
      [] path = PathC ->
           \* no leap seconds and no system in the header; G07 twice,
           \* blocks that are skipped, a block short of numbers, PRN -5
           <<HeaderComment, HeaderEnd>>
             \o Block(<<"+", "7">>, Clock9, OrbitLines(Toe1000))
             \o Block(<<" ", "7">>, Clock9, OrbitLines(Toe3000))
             \o Block(<<"R", "1">>, Clock9, OrbitLines(Toe0))
             \o Block(<<" ", "5">>, Clock7, OrbitLines(Toe0))
             \o Block(<<" ", "9">>, Clock9, OrbitLinesShort(Toe0))
             \o Block(<<"-", "5">>, Clock9, OrbitLines(Toe0))
      [] path = PathR ->
           <<HeaderGlonass, HeaderEnd>>
             \o Block(<<" ", "1">>, Clock9, OrbitLines(Toe0))
      [] path = PathE -> <<>>
      [] path = PathH -> <<HeaderGps, HeaderLeap17, HeaderEnd>>
      [] path = PathM ->
           \* leap seconds 17; no block yields a record
           <<HeaderGps, HeaderLeap17, HeaderEnd>>
             \o Block(<<" ", "5">>, Clock7, OrbitLines(Toe0))
             \o Block(<<"R", "1">>, Clock9, OrbitLines(Toe0))
      [] OTHER -> <<>>

\* the texts the observation time entry can hold: the default time,
\* a time just before the end of the GPS week, one just after it, a text
\* of another format, and the last second a datetime can hold
ObsDefault ==
    <<"2", "0", "2", "3", "-", "0", "9", "-", "0", "9", " ", "0", "0", ":",
      "0", "0", ":", "0", "9">>

ObsWeekEnd ==
    <<"2", "0", "2", "3", "-", "0", "9", "-", "0", "9", " ", "2", "3", ":",
      "5", "8", ":", "0", "0">>

ObsWeekStart ==
    <<"2", "0", "2", "3", "-", "0", "9", "-", "1", "0", " ", "0", "0", ":",
      "3", "3", ":", "0", "2">>

ObsSlashes ==
    <<"2", "0", "2", "3", "/", "0", "9", "/", "0", "9", " ", "0", "0", ":",
      "0", "0", ":", "0", "9">>

ObsLastSecond ==
    <<"9", "9", "9", "9", "-", "1", "2", "-", "3", "1", " ", "2", "3", ":",
      "5", "9", ":", "5", "9">>

ObsTimes == { ObsDefault, ObsWeekEnd, ObsWeekStart, ObsSlashes, ObsLastSecond }

\* self.default_time
DefaultTime == ObsDefault

\* ------------------------------------------------------------------------
\* The satellite list
\* ------------------------------------------------------------------------

\* the code points of the characters of a satellite identifier
CharCode(c) ==
    IF c = "-" THEN 45
    ELSE IF c \in DigitChars THEN 48 + DigitVal(c)
    ELSE IF c = "G" THEN 71
    ELSE 0

RECURSIVE StrLess(_, _)
\* a < b for str
StrLess(a, b) ==
    IF b = <<>> THEN FALSE
    ELSE IF a = <<>> THEN TRUE
    ELSE IF Head(a) # Head(b) THEN CharCode(Head(a)) < CharCode(Head(b))
    ELSE StrLess(Tail(a), Tail(b))

RECURSIVE SortedStrs(_)
\* sorted(S) of a set of str
SortedStrs(S) ==
    IF S = {} THEN <<>>
    ELSE LET m == CHOOSE x \in S : \A y \in S \ {x} : StrLess(x, y)
         IN  <<m>> \o SortedStrs(S \ {m})

\* svs = sorted({e['prn'] for e in self.ephs})
SatelliteList(es) == SortedStrs({ es[k].prn : k \in 1..Len(es) })

\* ------------------------------------------------------------------------
\* The session (App)
\* ------------------------------------------------------------------------

\* how a handler ended (outcome) and the message box it showed (box is
\* "none" when it showed none; text names the message)
Report(op, outcome, box, text) ==
    [op |-> op, outcome |-> outcome, box |-> box, text |-> text]

\* a load that ends before the file is parsed
NotLoaded(path, outcome) ==
    [ephs |-> <<>>, path |-> path, outcome |-> outcome,
     leap |-> DefaultLeapSeconds]

\* leap = get_leap_seconds(header) and x = extract_gps_ephemeris(body)
LoadParsed(path, leap, x) ==
    [ephs    |-> x.ephs,
     path    |-> path,
     outcome |-> IF x.raised THEN "raised"
                 ELSE IF x.ephs = <<>> THEN "no_records"
                 ELSE "ok",
     leap    |-> leap]

\* hb = split_header_body(lines)
LoadSplit(path, hb) ==
    IF hb.body = <<>> THEN NotLoaded(path, "no_body")
    ELSE IF FileType(hb.header, path) = "GLONASS"
    THEN NotLoaded(path, "glonass")
    ELSE LoadParsed(path, GetLeapSeconds(hb.header),
                    ExtractGpsEphemeris(hb.body))

\* lines = read_file(path)
LoadLines(path, lines) ==
    IF lines = <<>> THEN NotLoaded(path, "empty_file")
    ELSE LoadSplit(path, SplitHeaderBody(lines))

\* What load_nav and auto_load_default make of the text path of the file
\* entry, in the order of their checks: how far the load gets, and the
\* leap seconds and the records it reads
LoadFile(path) ==
    IF path = <<>> THEN NotLoaded(path, "no_path")
    ELSE IF ~Exists(path) THEN NotLoaded(path, "missing")
    ELSE IF ~Readable(path) THEN NotLoaded(path, "unreadable")
    ELSE LoadLines(path, ReadFile(path))

\* the loads of the texts the file entry can hold, the empty text too
Files == { LoadFile(path) : path \in Paths \cup { <<>> } }

\* the texts the time entry can hold, and what strptime makes of each
Times == { [text |-> text, parsed |-> StrpTime(text)] : text \in ObsTimes }

AppInit ==
    /\ leap_seconds = DefaultLeapSeconds
    /\ ephs = <<>>
    /\ cbo_values = <<>>
    /\ cbo_sv = <<>>
    /\ auto_pending = TRUE
    /\ last = Report("init", "ok", "none", "")
    /\ result = <<>>

AppIdle ==
    /\ leap_seconds = DefaultLeapSeconds
    /\ ephs = <<>>
    /\ cbo_values = <<>>
    /\ cbo_sv = <<>>
    /\ auto_pending = FALSE
    /\ last = Report("init", "ok", "none", "")
    /\ result = <<>>

\* the user picks a satellite in the read-only combobox
SelectSatellite ==
    /\ \E k \in 1..Len(cbo_values) : cbo_sv' = cbo_values[k]
    /\ last' = Report("select_sv", "ok", "none", "")
    /\ UNCHANGED <<leap_seconds, ephs, cbo_values, auto_pending, result,
                   parserVars, foldVars, unitVars>>

\* --- auto_load_default: the callback scheduled at start-up.  f is the
\* --- load of the text the file entry holds when it runs

\* every return before the file is parsed, none with a message
AutoLoadSilent(f) ==
    /\ auto_pending
    /\ f.outcome \in { "no_path", "missing", "unreadable", "empty_file",
                       "no_body", "glonass" }
    /\ auto_pending' = FALSE
    /\ last' = Report("auto_load_default", f.outcome, "none", "")
    /\ UNCHANGED <<leap_seconds, ephs, cbo_values, cbo_sv, result,
                   parserVars, foldVars, unitVars>>

\* extract_gps_ephemeris raises: leap_seconds is assigned, ephs is not
AutoLoadRaise(f) ==
    /\ auto_pending
    /\ f.outcome = "raised"
    /\ auto_pending' = FALSE
    /\ leap_seconds' = f.leap
    /\ last' = Report("auto_load_default", "raised", "none", "")
    /\ UNCHANGED <<ephs, cbo_values, cbo_sv, result, parserVars,
                   foldVars, unitVars>>

\* no record: both fields are assigned, the combobox is left alone
AutoLoadNoRecords(f) ==
    /\ auto_pending
    /\ f.outcome = "no_records"
    /\ auto_pending' = FALSE
    /\ leap_seconds' = f.leap
    /\ ephs' = <<>>
    /\ last' = Report("auto_load_default", "no_records", "none", "")
    /\ UNCHANGED <<cbo_values, cbo_sv, result, parserVars, foldVars, unitVars>>

AutoLoadOk(f) ==
    /\ auto_pending
    /\ f.outcome = "ok"
    /\ auto_pending' = FALSE
    /\ leap_seconds' = f.leap
    /\ ephs' = f.ephs
    /\ cbo_values' = SatelliteList(f.ephs)
    /\ cbo_sv' = SatelliteList(f.ephs)[1]
    /\ last' = Report("auto_load_default", "ok", "none", "")
    /\ UNCHANGED <<result, parserVars, foldVars, unitVars>>

\* --- load_nav: the parse button.  f is the load of the text the file
\* --- entry holds when it is pressed

\* the message of each return of load_nav before the file is parsed
LoadNavMessage(outcome) ==
    CASE outcome = "no_path"    -> <<"warning", "choose a file first">>
      [] outcome = "missing"    -> <<"error", "file does not exist">>
      [] outcome = "unreadable" -> <<"error", "cannot read file">>
      [] outcome = "empty_file" -> <<"error", "file is empty">>
      [] outcome = "no_body"    -> <<"error", "no ephemeris data in file">>

LoadNavRejected(f) ==
    /\ f.outcome \in { "no_path", "missing", "unreadable", "empty_file",
                       "no_body" }
    /\ last' = Report("load_nav", f.outcome, LoadNavMessage(f.outcome)[1],
                      LoadNavMessage(f.outcome)[2])
    /\ UNCHANGED <<leap_seconds, ephs, cbo_values, cbo_sv, auto_pending,
                   result, parserVars, foldVars, unitVars>>

\* a GLONASS file: a warning, and the combobox values are cleared
LoadNavGlonass(f) ==
    /\ f.outcome = "glonass"
    /\ cbo_values' = <<>>
    /\ last' = Report("load_nav", "glonass", "warning",
                      "GLONASS file, only GPS is supported")
    /\ UNCHANGED <<leap_seconds, ephs, cbo_sv, auto_pending, result,
                   parserVars, foldVars, unitVars>>

\* extract_gps_ephemeris raises: leap_seconds is assigned, ephs is not,
\* and the exception leaves the handler
LoadNavRaise(f) ==
    /\ f.outcome = "raised"
    /\ leap_seconds' = f.leap
    /\ last' = Report("load_nav", "raised", "none", "")
    /\ UNCHANGED <<ephs, cbo_values, cbo_sv, auto_pending, result,
                   parserVars, foldVars, unitVars>>

LoadNavNoRecords(f) ==
    /\ f.outcome = "no_records"
    /\ leap_seconds' = f.leap
    /\ ephs' = <<>>
    /\ cbo_values' = <<>>
    /\ last' = Report("load_nav", "no_records", "warning",
                      "no GPS ephemeris record in file")
    /\ UNCHANGED <<cbo_sv, auto_pending, result, parserVars,
                   foldVars, unitVars>>

LoadNavOkKeepsSelection(f) ==
    /\ f.outcome = "ok"
    /\ leap_seconds' = f.leap
    /\ ephs' = f.ephs
    /\ cbo_values' = SatelliteList(f.ephs)
    /\ last' = Report("load_nav", "ok", "info", "parsed")
    /\ UNCHANGED <<cbo_sv, auto_pending, result, parserVars, foldVars,
                   unitVars>>

\* records found: both fields, the satellite list and the selection are set
LoadNavOk(f) ==
    /\ f.outcome = "ok"
    /\ leap_seconds' = f.leap
    /\ ephs' = f.ephs
    /\ cbo_values' = SatelliteList(f.ephs)
    /\ cbo_sv' = SatelliteList(f.ephs)[1]
    /\ last' = Report("load_nav", "ok", "info", "parsed")
    /\ UNCHANGED <<auto_pending, result, parserVars, foldVars, unitVars>>

\* --- calculate: the compute button.  ot is the text the time entry
\* --- holds when it is pressed, as strptime reads it

\* compute_gps_ecef raises on sqrtA = 0 (MU / a ** 3 divides by zero), on
\* an infinite M0 (math.sin(Ek) of the Kepler loop) and on an eccentricity
\* beyond 1 (math.sqrt(1 - e ** 2) of a negative)
PropagatorRaises(e) ==
    \/ (e.sqrtA.digs = <<>> /\ ~e.sqrtA.inf)
    \/ e.M0.inf
    \/ e.e.inf
    \/ (/\ e.e.digs # <<>>
        /\ e.e.e + Len(e.e.digs) - 1 >= 0
        /\ ~(e.e.digs = <<1>> /\ e.e.e = 0))

\* sow of _, sow = utc_to_gps_seconds_of_week(dt, self.leap_seconds)
SecondsOfWeek(t) == UtcToGpsSecondsOfWeek(t, leap_seconds)[2]

\* eph = min(cand, key=...) of the records of the chosen satellite
Picked(t) == PickEphemeris(Candidates(ephs, cbo_sv), SecondsOfWeek(t))

\* How far calculate gets, in the order of its checks
CalcOutcome(ot) ==
    IF ephs = <<>> THEN "no_ephs"
    ELSE IF cbo_sv = <<>> THEN "no_sv"
    ELSE IF ~ot.parsed.ok THEN "bad_time"
    ELSE IF GpsTimeOverflows(ot.parsed.t, leap_seconds) THEN "raised"
    ELSE IF Candidates(ephs, cbo_sv) = <<>> THEN "no_candidate"
    ELSE IF PropagatorRaises(Picked(ot.parsed.t)) THEN "raised"
    ELSE "ok"

CalcMessage(outcome) ==
    CASE outcome = "no_ephs" ->
           <<"warning", "parse the ephemeris first">>
      [] outcome = "no_sv" ->
           <<"warning", "choose a satellite">>
      [] outcome = "bad_time" ->
           <<"error", "time format is YYYY-MM-DD HH:MM:SS">>
      [] outcome = "no_candidate" ->
           <<"error", "no ephemeris record of the satellite">>

\* the return after the message of the check that failed
CalculateRejected(ot) ==
    /\ CalcOutcome(ot) \in { "no_ephs", "no_sv", "bad_time", "no_candidate" }
    /\ last' = Report("calculate", CalcOutcome(ot),
                      CalcMessage(CalcOutcome(ot))[1],
                      CalcMessage(CalcOutcome(ot))[2])
    /\ UNCHANGED <<leap_seconds, ephs, cbo_values, cbo_sv, auto_pending,
                   result, parserVars, foldVars, unitVars>>

\* utc_to_gps_seconds_of_week or compute_gps_ecef raises, and the
\* exception leaves the handler
CalculateRaise(ot) ==
    /\ CalcOutcome(ot) = "raised"
    /\ last' = Report("calculate", "raised", "none", "")
    /\ UNCHANGED <<leap_seconds, ephs, cbo_values, cbo_sv, auto_pending,
                   result, parserVars, foldVars, unitVars>>

\* what a computation used: the record, and the time since its Toe that
\* compute_gps_ecef propagates it by
Computation(t, sow, e) ==
    [t |-> t, tk |-> NormalizeTk(sow - WholeSeconds(e.Toe)), sow |-> sow,
     sv |-> cbo_sv, leap |-> leap_seconds, eph |-> e]

\* the record is picked and propagated with self.leap_seconds
CalculateOk(ot) ==
    /\ CalcOutcome(ot) = "ok"
    /\ result' = << Computation(ot.parsed.t, SecondsOfWeek(ot.parsed.t),
                                Picked(ot.parsed.t)) >>
    /\ last' = Report("calculate", "ok", "none", "")
    /\ UNCHANGED <<leap_seconds, ephs, cbo_values, cbo_sv, auto_pending,
                   parserVars, foldVars, unitVars>>

\* ------------------------------------------------------------------------
\* split_header_body as a state machine
\* ------------------------------------------------------------------------

\* the marker inside other text
HeaderEndInText ==
    <<"x", " ", "E", "N", "D", " ", "O", "F", " ", "H", "E", "A", "D", "E",
      "R", " ", "y", "\n">>

\* the marker in lower case
HeaderEndLower ==
    <<" ", "e", "n", "d", " ", "o", "f", " ", "h", "e", "a", "d", "e", "r",
      "\n">>

SplitLinePool == {HeaderComment, HeaderEnd, HeaderEndInText, HeaderEndLower}

MaxSplitLines == 4

SplitInputs == UNION { [1..n -> SplitLinePool] : n \in 0..MaxSplitLines }

SplitIdle ==
    /\ s_lines = <<>> /\ s_k = 0 /\ s_header = <<>> /\ s_body = <<>>
    /\ s_end = FALSE /\ s_pc = "done"

SplitStart(lines) ==
    /\ s_lines = lines /\ s_k = 0 /\ s_header = <<>> /\ s_body = <<>>
    /\ s_end = FALSE /\ s_pc = "loop"

HasEndMarkerAnyCase(ln) == Contains(Upper(ln), EndOfHeader)

\* 'END OF HEADER' in ln
HasEndMarker(ln) == Contains(ln, EndOfHeader)

\* a pass with end unset: header.append(ln), then end is set on the marker
SplitToHeader ==
    /\ s_pc = "loop" /\ s_k < Len(s_lines) /\ ~s_end
    /\ s_header' = Append(s_header, s_lines[s_k + 1])
    /\ s_end' = HasEndMarker(s_lines[s_k + 1])
    /\ s_k' = s_k + 1
    /\ UNCHANGED <<s_lines, s_body, s_pc, leapVars,
                   parserVars, foldVars, appVars,
                   keplerVars>>

\* a pass with end set: body.append(ln)
SplitToBody ==
    /\ s_pc = "loop" /\ s_k < Len(s_lines) /\ s_end
    /\ s_body' = Append(s_body, s_lines[s_k + 1])
    /\ s_k' = s_k + 1
    /\ UNCHANGED <<s_lines, s_header, s_end, s_pc, leapVars,
                   parserVars, foldVars, appVars,
                   keplerVars>>

\* return header, body
SplitReturn ==
    /\ s_pc = "loop" /\ s_k = Len(s_lines)
    /\ s_pc' = "done"
    /\ UNCHANGED <<s_lines, s_k, s_header, s_body, s_end, leapVars,
                   parserVars, foldVars, appVars,
                   keplerVars>>

\* ------------------------------------------------------------------------
\* get_leap_seconds as a state machine
\* ------------------------------------------------------------------------

\* the label after a field that is no number
HeaderLeapMalformed ==
    <<" ", " ", " ", " ", "x", "x", " ", "L", "E", "A", "P", " ", "S", "E",
      "C", "O", "N", "D", "S", "\n">>

\* the label after a blank field
HeaderLeapBlank ==
    <<" ", " ", " ", " ", " ", " ", " ", "L", "E", "A", "P", " ", "S", "E",
      "C", "O", "N", "D", "S", "\n">>

\* the label after a field that ends one column further right
HeaderLeapShifted ==
    <<" ", " ", " ", " ", " ", "1", "6", " ", "L", "E", "A", "P", " ", "S",
      "E", "C", "O", "N", "D", "S", "\n">>

LeapLinePool ==
    {HeaderComment, HeaderLeap18, HeaderLeap17, HeaderLeapMalformed,
     HeaderLeapBlank, HeaderLeapShifted}

MaxLeapLines == 3

LeapInputs == UNION { [1..n -> LeapLinePool] : n \in 0..MaxLeapLines }

LeapIdle ==
    l_header = <<>> /\ l_k = 0 /\ l_ret = DefaultLeapSeconds /\ l_pc = "done"

LeapStart(header) ==
    l_header = header /\ l_k = 0 /\ l_ret = DefaultLeapSeconds /\ l_pc = "loop"

LeapFieldShifted(ln) == PyInt(Slice(ln, 1, 7))

\* int(ln[:6])
LeapField(ln) == PyInt(Slice(ln, 0, 6))

\* a line without the label: the loop goes on
LeapNextLine ==
    /\ l_pc = "loop" /\ l_k < Len(l_header)
    /\ ~Contains(l_header[l_k + 1], LeapSecondsLabel)
    /\ l_k' = l_k + 1
    /\ UNCHANGED <<l_header, l_ret, l_pc, splitVars,
                   parserVars, foldVars, appVars,
                   keplerVars>>

\* a line with the label and a field that int() accepts: return int(ln[:6])
LeapReturnField ==
    /\ l_pc = "loop" /\ l_k < Len(l_header)
    /\ Contains(l_header[l_k + 1], LeapSecondsLabel)
    /\ LeapField(l_header[l_k + 1]).ok
    /\ l_ret' = SmallValue(LeapField(l_header[l_k + 1]).val)
    /\ l_pc' = "done"
    /\ UNCHANGED <<l_header, l_k, splitVars, parserVars, foldVars,
                   appVars, keplerVars>>

\* a line with the label and a field that int() rejects: except Exception,
\* return 18
LeapReturnExcept ==
    /\ l_pc = "loop" /\ l_k < Len(l_header)
    /\ Contains(l_header[l_k + 1], LeapSecondsLabel)
    /\ ~LeapField(l_header[l_k + 1]).ok
    /\ l_ret' = DefaultLeapSeconds
    /\ l_pc' = "done"
    /\ UNCHANGED <<l_header, l_k, splitVars, parserVars, foldVars,
                   appVars, keplerVars>>

\* the loop ends without a labelled line: return 18
LeapReturnDefault ==
    /\ l_pc = "loop" /\ l_k = Len(l_header)
    /\ l_ret' = DefaultLeapSeconds
    /\ l_pc' = "done"
    /\ UNCHANGED <<l_header, l_k, splitVars, parserVars, foldVars,
                   appVars, keplerVars>>

\* ------------------------------------------------------------------------
\* The Kepler loop of compute_gps_ecef as a state machine
\* ------------------------------------------------------------------------

MaxIterations == 10

FxZero == FxFin(FALSE, LimbZero)

\* the mean anomalies of the model: 0, 0.5, 1, 2, 3, 6, -0.5, inf
KeplerAnomalies ==
    { FxZero,
      FxFin(FALSE, <<0, 5000, 0, 0, 0>>),
      FxFin(FALSE, <<1, 0, 0, 0, 0>>),
      FxFin(FALSE, <<2, 0, 0, 0, 0>>),
      FxFin(FALSE, <<3, 0, 0, 0, 0>>),
      FxFin(FALSE, <<6, 0, 0, 0, 0>>),
      FxFin(TRUE, <<0, 5000, 0, 0, 0>>),
      FxInf(FALSE) }

Ecc006 == FxFin(FALSE, <<0, 600, 0, 0, 0>>)

Ecc010 == FxFin(FALSE, <<0, 1000, 0, 0, 0>>)

\* the eccentricities of the model: 0, 0.01, 0.02, 0.05, 0.06, 0.1, inf
KeplerEccentricities ==
    { FxZero,
      FxFin(FALSE, <<0, 100, 0, 0, 0>>),
      FxFin(FALSE, <<0, 200, 0, 0, 0>>),
      FxFin(FALSE, <<0, 500, 0, 0, 0>>),
      Ecc006,
      Ecc010,
      FxInf(FALSE) }

KeplerIdle ==
    /\ Mk = FxZero /\ k_e = FxZero /\ Ek = FxZero /\ k_n = 0
    /\ k_pc = "break"

\* Ek = Mk
KeplerStart(m, ecc) ==
    /\ Mk = m /\ k_e = ecc /\ Ek = m /\ k_n = 0 /\ k_pc = "loop"

\* a pass whose change is not below the tolerance: Ek = Ek_next
KeplerPass ==
    /\ k_pc = "loop" /\ k_n < MaxIterations
    /\ Ek.kind # "inf"
    /\ ~ChangeBelowTolerance(KeplerNext(Mk, k_e, Ek), Ek)
    /\ Ek' = KeplerNext(Mk, k_e, Ek)
    /\ k_n' = k_n + 1
    /\ UNCHANGED <<Mk, k_e, k_pc, splitVars, leapVars,
                   parserVars, foldVars, appVars>>

\* a pass whose change is below the tolerance: Ek = Ek_next; break
KeplerBreak ==
    /\ k_pc = "loop" /\ k_n < MaxIterations
    /\ Ek.kind # "inf"
    /\ ChangeBelowTolerance(KeplerNext(Mk, k_e, Ek), Ek)
    /\ Ek' = KeplerNext(Mk, k_e, Ek)
    /\ k_n' = k_n + 1
    /\ k_pc' = "break"
    /\ UNCHANGED <<Mk, k_e, splitVars, leapVars,
                   parserVars, foldVars, appVars>>

\* math.sin(Ek) of an infinite Ek raises ValueError
KeplerRaise ==
    /\ k_pc = "loop" /\ k_n < MaxIterations
    /\ Ek.kind = "inf"
    /\ k_pc' = "raised"
    /\ UNCHANGED <<Mk, k_e, Ek, k_n, splitVars, leapVars,
                   parserVars, foldVars, appVars>>

\* range(10) is used up: the loop ends with the last iterate
KeplerExhausted ==
    /\ k_pc = "loop" /\ k_n = MaxIterations
    /\ k_pc' = "exhausted"
    /\ UNCHANGED <<Mk, k_e, Ek, k_n, splitVars, leapVars,
                   parserVars, foldVars, appVars>>

UnitIdle == SplitIdle /\ LeapIdle /\ KeplerIdle

\* ------------------------------------------------------------------------
\* Specifications
\* ------------------------------------------------------------------------

\* the session: files are loaded and positions computed in any order
Init == AppInit /\ ParserIdle /\ FoldIdle /\ UnitIdle

AutoLoadDefault ==
    \E f \in Files :
        \/ AutoLoadSilent(f)
        \/ AutoLoadRaise(f)
        \/ AutoLoadNoRecords(f)
        \/ AutoLoadOk(f)

LoadNav ==
    \E f \in Files :
        \/ LoadNavRejected(f)
        \/ LoadNavGlonass(f)
        \/ LoadNavRaise(f)
        \/ LoadNavNoRecords(f)
        \/ LoadNavOk(f)

Calculate ==
    \E ot \in Times :
        \/ CalculateRejected(ot)
        \/ CalculateRaise(ot)
        \/ CalculateOk(ot)

Next ==
    \/ SelectSatellite
    \/ AutoLoadDefault
    \/ LoadNav
    \/ Calculate

Spec == Init /\ [][Next]_vars

\* the parser applied to every body of Bodies
InitParse ==
    (\E b \in Bodies : ParserStart(b)) /\ FoldIdle /\ AppIdle /\ UnitIdle

NextParse ==
    \/ SkipEmptyPrn
    \/ SkipNonGps
    \/ SkipBadPrn
    \/ SkipFewTokens
    \/ SkipBadEpoch
    \/ RaiseOverflow
    \/ AppendRecord
    \/ ReturnEphs

SpecParse == InitParse /\ [][NextParse]_vars

\* normalize_tk applied to every argument of FoldInputs
InitFold ==
    /\ \E x \in FoldInputs : tk_in = x /\ tk = x /\ n_pc = "down"
    /\ ParserIdle
    /\ AppIdle
    /\ UnitIdle

NextFold == FoldDown \/ FoldDownEnd \/ FoldUp \/ FoldReturn

SpecFold == InitFold /\ [][NextFold]_vars

\* ------------------------------------------------------------------------
\* The record a computation uses
\* ------------------------------------------------------------------------

\* C1: whenever a computation succeeds, the record it uses is a record of
\* the chosen satellite whose folded offset
\* ((sow - Toe + 302400) mod 604800) - 302400 is least in absolute value
\* among the catalog's records of that satellite, and every record of the
\* satellite before it in the catalog has a strictly larger one.
SelectorPicksLeastFoldedOffset ==
    [][ (last'.op = "calculate" /\ last'.outcome = "ok") =>
          LET r      == result'[1]
              off(x) == Abs(((r.sow - WholeSeconds(x.Toe) + 302400) % 604800)
                              - 302400)
              own    == { k \in 1..Len(ephs) : ephs[k].prn = cbo_sv }
          IN  \E k \in own :
                  /\ r.eph = ephs[k]
                  /\ \A j \in own : off(ephs[j]) >= off(ephs[k])
                  /\ \A j \in own : j < k => off(ephs[j]) > off(ephs[k]) ]_vars

\* C1: a computation just before the end of the week used the record with
\* Toe = 0 although the catalog holds a record of the same satellite whose
\* Toe is nearer to sow within the week.
SelectorPickedAcrossWeekBoundary ==
    /\ last.op = "calculate" /\ last.outcome = "ok"
    /\ WholeSeconds(result[1].eph.Toe) = 0
    /\ \E k \in 1..Len(ephs) :
           /\ ephs[k].prn = cbo_sv
           /\ Abs(result[1].sow - WholeSeconds(ephs[k].Toe)) < result[1].sow

\* ------------------------------------------------------------------------
\* The result of normalize_tk
\* ------------------------------------------------------------------------

\* C2: normalize_tk returns a value of the closed interval
\* [-302400, 302400] that differs from its argument by a whole number of
\* weeks; it returns 302400 only for an argument of at least 302400 and
\* -302400 only for one of at most -302400.
NormalizeTkInClosedHalfWeek ==
    n_pc = "done" =>
        /\ -302400 <= tk /\ tk <= 302400
        /\ (tk - tk_in) % 604800 = 0
        /\ tk = 302400 => tk_in >= 302400
        /\ tk = -302400 => tk_in <= -302400

\* C2: normalize_tk has folded an argument to the upper end 302400.
NormalizeTkReturnedUpperEnd ==
    n_pc = "done" /\ tk = 302400 /\ tk_in > 302400

\* C2 as stated: the value returned lies in the half-open interval
\* [-302400, 302400) and differs from the argument by whole weeks.
NormalizeTkInHalfOpenHalfWeek ==
    n_pc = "done" =>
        /\ -302400 <= tk /\ tk < 302400
        /\ (tk - tk_in) % 604800 = 0

\* ------------------------------------------------------------------------
\* The records extract_gps_ephemeris appends
\* ------------------------------------------------------------------------

\* C3: the year of the reference epoch of a record is 1900 + yy when the
\* two-digit year yy of its clock line is 80 or more, and 2000 + yy when
\* yy is below 80.
EpochYearPivotsAtEighty ==
    p_last = "record" =>
        LET nums == FindNumbersClock(SliceFrom(body[i - 7], 2))
            yy   == SmallValue(PyInt(nums[1]).val)
        IN  p_ephs[Len(p_ephs)].toc[1] =
                IF yy >= 80 THEN 1900 + yy ELSE 2000 + yy

\* C3: a record whose clock line has the two-digit year 79 has been
\* appended with the epoch year 2079.
EpochYearBelowPivotAppended ==
    /\ p_last = "record"
    /\ SmallValue(PyInt(FindNumbersClock(SliceFrom(body[i - 7], 2))[1]).val)
           = 79
    /\ p_ephs[Len(p_ephs)].toc[1] = 2079

\* C3 as stated: a two-digit year below 80 maps to 1900 + year, and one of
\* 80 or more maps to 2000 + year.
EpochYearPivotsAsStated ==
    p_last = "record" =>
        LET nums == FindNumbersClock(SliceFrom(body[i - 7], 2))
            yy   == SmallValue(PyInt(nums[1]).val)
        IN  p_ephs[Len(p_ephs)].toc[1] =
                IF yy < 80 THEN 1900 + yy ELSE 2000 + yy

\* C4: whatever the clock line of a block holds, extract_gps_ephemeris goes
\* on to the next block: no exception leaves it.
MalformedClockLineNeverAborts == p_pc # "raised"

\* C7: the satellite identifier of every record appended is the letter G
\* followed by exactly two decimal digits.
SatelliteIdIsCanonical ==
    \A k \in 1..Len(p_ephs) :
        /\ Len(p_ephs[k].prn) = 3
        /\ p_ephs[k].prn[1] = "G"
        /\ p_ephs[k].prn[2] \in DigitChars
        /\ p_ephs[k].prn[3] \in DigitChars

\* C8: the index of the next block is a multiple of 8 within the whole
\* blocks of the body, and it is the end of the last whole block once the
\* function has returned; the records appended are, in the order of their
\* blocks, those of the blocks lines 8k..8k+7 passed so far that yield one,
\* so there are at most floor(len(body) / 8) of them.
BlocksAreAlignedAndInOrder ==
    LET passed   == i \div 8
        block(k) == SubSeq(body, 8 * k + 1, 8 * k + 8)
    IN  /\ i % 8 = 0
        /\ passed <= Len(body) \div 8
        /\ Len(p_ephs) <= passed
        /\ p_pc = "done" => passed = Len(body) \div 8
        /\ \E at \in [1..Len(p_ephs) -> 0..(passed - 1)] :
               /\ \A r \in 1..Len(p_ephs) :
                      ParseBlock(block(at[r])).recs = <<p_ephs[r]>>
               /\ \A r \in 1..(Len(p_ephs) - 1) : at[r] < at[r + 1]
               /\ \A k \in 0..(passed - 1) :
                      (\A r \in 1..Len(p_ephs) : at[r] # k)
                          => ParseBlock(block(k)).recs = <<>>

\* C8: the function has returned from a body that ends in fewer than 8
\* lines after its last whole block, having skipped a block and appended
\* the record of a later one.
PartialBlockIgnoredAfterSkip ==
    /\ p_pc = "done"
    /\ Len(body) % 8 # 0
    /\ i = 16
    /\ Len(p_ephs) = 1
    /\ ParseBlock(SubSeq(body, 1, 8)).recs = <<>>

\* C9: a pass over a block whose PRN field (the first two characters of
\* its first line) is blank, or has R or E as its first non-blank
\* character, appends no record and leaves the loop running at the next
\* block.
BlankOrForeignPrnYieldsNoRecord ==
    [][ ( /\ p_pc = "loop"
          /\ i' = i + 8
          /\ LET field == SubSeq(body[i + 1], 1, Min(2, Len(body[i + 1])))
                 seen  == SelectSeq(field, LAMBDA c : c \notin SpaceChars)
             IN  seen = <<>> \/ seen[1] \in {"R", "E"} )
        => (p_ephs' = p_ephs /\ p_pc' = "loop") ]_vars

\* C9: the first block had a PRN field starting with R or E and gave no
\* record, and the block after it has been parsed into one.
RecordAppendedAfterForeignBlock ==
    /\ p_last = "record"
    /\ i = 16
    /\ body[1][1] \in {"R", "E"}
    /\ Len(p_ephs) = 1

\* C10: a record is appended only for a clock line of at least 8 numbers;
\* its af0 and af1 are the 7th and 8th of them, and its af2 is the 9th, or
\* 0.0 when there are exactly 8.
ClockTermsFollowTokenCount ==
    p_last = "record" =>
        LET nums == FindNumbersClock(SliceFrom(body[i - 7], 2))
            rec  == p_ephs[Len(p_ephs)]
        IN  /\ Len(nums) >= 8
            /\ rec.af0 = ParseFloat(nums[7])
            /\ rec.af1 = ParseFloat(nums[8])
            /\ Len(nums) = 8 => rec.af2 = FloatZero
            /\ Len(nums) >= 9 => rec.af2 = ParseFloat(nums[9])

\* C10: a record has been appended for a clock line of exactly 8 numbers,
\* with af2 = 0.0 and an af1 that is not 0.0.
RecordAppendedFromEightNumbers ==
    /\ p_last = "record"
    /\ Len(FindNumbersClock(SliceFrom(body[i - 7], 2))) = 8
    /\ p_ephs[Len(p_ephs)].af2 = FloatZero
    /\ p_ephs[Len(p_ephs)].af1 # FloatZero

InitSplit ==
    /\ \E lines \in SplitInputs : SplitStart(lines)
    /\ LeapIdle /\ KeplerIdle
    /\ ParserIdle /\ FoldIdle /\ AppIdle

NextSplit == SplitToHeader \/ SplitToBody \/ SplitReturn

SpecSplit == InitSplit /\ [][NextSplit]_vars

\* get_leap_seconds on every header of the pool
InitLeap ==
    /\ \E header \in LeapInputs : LeapStart(header)
    /\ SplitIdle /\ KeplerIdle
    /\ ParserIdle /\ FoldIdle /\ AppIdle

NextLeap ==
    LeapNextLine \/ LeapReturnField \/ LeapReturnExcept \/ LeapReturnDefault

SpecLeap == InitLeap /\ [][NextLeap]_vars

\* the Kepler loop on every mean anomaly and eccentricity of the model
InitKepler ==
    /\ \E m \in KeplerAnomalies, ecc \in KeplerEccentricities :
           KeplerStart(m, ecc)
    /\ SplitIdle /\ LeapIdle
    /\ ParserIdle /\ FoldIdle /\ AppIdle

NextKepler == KeplerPass \/ KeplerBreak \/ KeplerRaise \/ KeplerExhausted

SpecKepler == InitKepler /\ [][NextKepler]_vars

\* ------------------------------------------------------------------------
\* The header functions
\* ------------------------------------------------------------------------

\* C12: when split_header_body has returned, header is the lines up to and
\* including the first one that holds END OF HEADER and body the lines
\* after it, marker or not; without such a line header is every line and
\* body is empty; header followed by body is the input.
SplitAtFirstEndOfHeader ==
    s_pc = "done" =>
        LET marked == { k \in 1..Len(s_lines) :
                            Contains(s_lines[k], EndOfHeader) }
            first  == IF marked = {} THEN Len(s_lines)
                      ELSE CHOOSE k \in marked : \A m \in marked : k <= m
        IN  /\ s_header = SubSeq(s_lines, 1, first)
            /\ s_body = SubSeq(s_lines, first + 1, Len(s_lines))
            /\ s_header \o s_body = s_lines
            /\ (marked = {} => s_body = <<>>)
            /\ SplitHeaderBody(s_lines)
                   = [body |-> s_body, header |-> s_header]

\* C12: the split has returned on lines of which the second and the fourth
\* hold the marker: the fourth is in body.
SplitReturnedWithMarkerInBody ==
    /\ s_pc = "done"
    /\ Len(s_lines) = 4
    /\ ~Contains(s_lines[1], EndOfHeader)
    /\ Contains(s_lines[2], EndOfHeader)
    /\ Contains(s_lines[4], EndOfHeader)
    /\ s_header = SubSeq(s_lines, 1, 2)
    /\ s_body = SubSeq(s_lines, 3, 4)

\* C13: when get_leap_seconds has returned, its value is 18 if no line
\* holds LEAP SECONDS or if int() rejects the first six columns of the
\* first line that does, and the integer of these columns otherwise; the
\* function has no other way out.
LeapSecondsIsFieldOrDefault ==
    /\ l_pc \in {"loop", "done"}
    /\ l_pc = "done" =>
        LET labelled == { k \in 1..Len(l_header) :
                              Contains(l_header[k], LeapSecondsLabel) }
            first    == CHOOSE k \in labelled : \A m \in labelled : k <= m
            field    == PyInt(Slice(l_header[first], 0, 6))
        IN  /\ l_ret = IF labelled = {} THEN DefaultLeapSeconds
                       ELSE IF field.ok THEN SmallValue(field.val)
                       ELSE DefaultLeapSeconds
            /\ l_ret = GetLeapSeconds(l_header)

\* C13: get_leap_seconds has returned 18 on a header whose first labelled
\* line has a malformed field and whose next line reads 17.
LeapReturnedDefaultOnMalformedField ==
    /\ l_pc = "done"
    /\ Len(l_header) = 3
    /\ l_header[1] = HeaderComment
    /\ l_header[2] = HeaderLeapMalformed
    /\ l_header[3] = HeaderLeap17
    /\ l_ret = DefaultLeapSeconds

\* ------------------------------------------------------------------------
\* The Kepler loop
\* ------------------------------------------------------------------------

\* C15: for a finite mean anomaly and an eccentricity in [0, 0.06] the loop
\* never uses up its 10 passes: a pass with a change below 1e-12 ends it.
KeplerReachesToleranceUpToEcc006 ==
    (/\ Mk.kind = "fin"
     /\ k_e.kind = "fin" /\ ~k_e.neg /\ ~LimbLess(Ecc006.mag, k_e.mag))
        => k_pc \in {"loop", "break"}

\* C15: with the eccentricity 0.06 the loop has been left by break in its
\* 10th pass.
KeplerBrokeInTenthPass ==
    /\ k_pc = "break"
    /\ k_e = Ecc006
    /\ Mk.kind = "fin"
    /\ k_n = MaxIterations

\* C15 as stated: for a finite mean anomaly and an eccentricity in [0, 0.1]
\* the loop never uses up its 10 passes.
KeplerReachesToleranceUpToEcc010 ==
    (/\ Mk.kind = "fin"
     /\ k_e.kind = "fin" /\ ~k_e.neg /\ ~LimbLess(Ecc010.mag, k_e.mag))
        => k_pc \in {"loop", "break"}

\* C16: the loop makes at most 10 passes and ends by break or after the
\* 10th pass, never by an exception.
KeplerEndsWithoutError ==
    /\ k_n <= MaxIterations
    /\ k_pc \in {"loop", "break", "exhausted"}
    /\ k_pc = "exhausted" => k_n = MaxIterations

\* ------------------------------------------------------------------------
\* The session's loads and computations
\* ------------------------------------------------------------------------

\* C5: the record and the leap seconds a computation used are those of
\* one load: some file's load yields the record among its records and the
\* leap seconds as its own.
ComputationUsesOneLoad ==
    result # <<>> =>
        \E f \in Files :
            /\ f.outcome = "ok"
            /\ f.leap = result[1].leap
            /\ \E k \in 1..Len(f.ephs) : f.ephs[k] = result[1].eph

\* C6: a load that finds an empty file, no data section, a file of another
\* system or no record, and a computation that finds no record of the
\* satellite or cannot read the time, ends with a message box.
EveryFailureIsReported ==
    last.outcome \in { "empty_file", "no_body", "glonass", "no_records",
                       "no_candidate", "bad_time" }
        => last.box \in { "warning", "error" }

\* C14: every load that reaches extract_gps_ephemeris leaves in self.ephs
\* the records parsed from its file and nothing else (no record, or the
\* records of the blocks before the failing one, when the parse raises).
CatalogIsLastParsedFile ==
    [][\A f \in Files :
           (\/ AutoLoadRaise(f) \/ AutoLoadNoRecords(f) \/ AutoLoadOk(f)
            \/ LoadNavRaise(f) \/ LoadNavNoRecords(f) \/ LoadNavOk(f))
               => \/ ephs' = f.ephs
                  \/ f.outcome = "raised" /\ ephs' = <<>>]_vars

\* C17: whenever self.ephs is non-empty and the combobox holds a
\* satellite, self.ephs holds a record of that satellite, and no
\* computation ends with the no-record-of-the-satellite message.
SelectedSatelliteIsInCatalog ==
    /\ (ephs # <<>> /\ cbo_sv # <<>>) => Candidates(ephs, cbo_sv) # <<>>
    /\ last.outcome # "no_candidate"

\* C17: a position has been computed for a satellite the user picked,
\* after a rejected load had emptied the satellite list.
ComputedForPickedAfterRejectedLoad ==
    /\ last.op = "calculate" /\ last.outcome = "ok"
    /\ ephs # <<>>
    /\ cbo_values = <<>>
    /\ cbo_sv # SatelliteList(ephs)[1]
    /\ result[1].eph.prn = cbo_sv

====
